---------------------------- MODULE Spec2Model ----------------------------
(***************************************************************************)
(* MediaX: an on-demand image/audio transformation cache behind a CDN.     *)
(*                                                                         *)
(* The model covers the Request Normalizer (the CloudFront viewer-request  *)
(* function), the Tiered Origin Resolver (the CloudFront origin group) and *)
(* the Transform Engine (the Lambda handler).                              *)
(*                                                                         *)
(* JavaScript strings are modelled as sequences of one-character strings,  *)
(* so that toLowerCase, includes, split, parseInt and Number.toString are  *)
(* computed character by character as the runtime computes them.           *)
(***************************************************************************)
EXTENDS Integers, Sequences, FiniteSets, TLC

VARIABLES
    req,        \* SpecNorm: the viewer request handed to the normalizer
    resA,       \* SpecNorm: request.uri returned by the audio-capable normalizer
    resI,       \* SpecNorm: request.uri returned by the image-only normalizer
    qsA,        \* SpecNorm: request.querystring returned by the audio-capable normalizer
    done,       \* SpecNorm: which normalizers have run on req
    retA,       \* SpecNorm: the request object the audio-capable normalizer holds and returns
    retI,       \* SpecNorm: the request object the image-only normalizer holds and returns
    engineKind, \* Spec: the deployed engine handler: "inline", "redirect", "legacy", "imageOnly" or "older"
    secretKey,  \* Spec: the secretKey of the engine's environment, Undefined when not set
    cacheBucket, \* Spec: whether the engine is configured with a cache bucket
    cache,      \* Spec: the objects of the cache bucket
    expired,    \* Spec: the keys whose object the lifecycle rule has expired
    cl,         \* Spec: each client's request in flight and the engine run serving it
    stack       \* SpecStack: the stack under construction: its context, then its resources

normVars == <<req, resA, resI, qsA, done, retA, retI>>

sysVars == <<engineKind, secretKey, cacheBucket, cache, expired, cl>>

vars == <<req, resA, resI, qsA, done, retA, retI, engineKind, secretKey, cacheBucket, cache,
          expired, cl, stack>>

\* no stack under construction
NoStack == [pc |-> "none"]

-----------------------------------------------------------------------------
(* Bounds of the model *)

\* the largest number of query parameters of one request
MaxParams == 2

\* the number of clients with a request in flight
NumClients == 2

\* the largest number of redirects a client follows for one request
MaxHops == 2

-----------------------------------------------------------------------------
(* JavaScript string primitives *)

UpperChars == <<"A","B","C","D","E","F","G","H","I","J","K","L","M",
                "N","O","P","Q","R","S","T","U","V","W","X","Y","Z">>
LowerChars == <<"a","b","c","d","e","f","g","h","i","j","k","l","m",
                "n","o","p","q","r","s","t","u","v","w","x","y","z">>
DigitChars == <<"0","1","2","3","4","5","6","7","8","9">>
HexChars == <<"0","1","2","3","4","5","6","7","8","9","a","b","c","d","e","f">>

\* the capital letters of Latin-1 (codes 192 to 222, the multiplication sign aside) and
\* their small letters (codes 224 to 254, the division sign aside)
Latin1Upper == <<"À","Á","Â","Ã","Ä","Å","Æ","Ç","È","É","Ê","Ë","Ì","Í","Î",
                 "Ï","Ð","Ñ","Ò","Ó","Ô","Õ","Ö","Ø","Ù","Ú","Û","Ü","Ý","Þ">>
Latin1Lower == <<"à","á","â","ã","ä","å","æ","ç","è","é","ê","ë","ì","í","î",
                 "ï","ð","ñ","ò","ó","ô","õ","ö","ø","ù","ú","û","ü","ý","þ">>

\* the control characters of codes 9 to 13: tab, line feed, vertical tab, form feed,
\* carriage return
ControlChars == <<"\t", "\n", "", "\f", "\r">>

\* the characters of codes 160 (no-break space) to 255
Latin1From160 ==
    <<" ","¡","¢","£","¤","¥","¦","§","¨","©","ª","«","¬","­","®","¯","°","±","²","³","´","µ","¶","·",
      "¸","¹","º","»","¼","½","¾","¿","À","Á","Â","Ã","Ä","Å","Æ","Ç","È","É","Ê","Ë","Ì","Í","Î","Ï",
      "Ð","Ñ","Ò","Ó","Ô","Õ","Ö","×","Ø","Ù","Ú","Û","Ü","Ý","Þ","ß","à","á","â","ã","ä","å","æ","ç",
      "è","é","ê","ë","ì","í","î","ï","ð","ñ","ò","ó","ô","õ","ö","÷","ø","ù","ú","û","ü","ý","þ","ÿ">>

\* the white space parseInt skips: the control characters, the space, the no-break space
\* (160), the Ogham space mark (5760) and the byte order mark (65279); the other space
\* separators and the line and paragraph separators cannot be written in a string here,
\* and strings holding them are outside the alphabet of this model
WhiteSpaceChars == {" ", "\t", "\n", "", "\f", "\r", " ", " ", "﻿"}

\* a character outside the alphabet of this model: no value
NotInAlphabet(c) == CHOOSE x \in {} : x = c

\* the index of character c in the sequence chars, 0 when absent
IndexOf(chars, c) ==
    IF \E i \in DOMAIN chars : chars[i] = c
    THEN CHOOSE i \in DOMAIN chars : chars[i] = c
    ELSE 0

\* the lower-case form of one character: of the ASCII and the Latin-1 capital letters and
\* of the Greek capital mu; every other character of the alphabet has no other lower-case
\* form
LowerChar(c) ==
    IF IndexOf(UpperChars, c) > 0 THEN LowerChars[IndexOf(UpperChars, c)]
    ELSE IF IndexOf(Latin1Upper, c) > 0 THEN Latin1Lower[IndexOf(Latin1Upper, c)]
    ELSE IF c = "Μ" THEN "μ"
    ELSE c

\* the upper-case form of one character, as a string: two characters for the sharp s, a
\* Greek capital mu for the micro sign and for the Greek small mu; the upper-case form of the y with diaeresis (code
\* 376) cannot be written in a string here
UpperChar(c) ==
    IF IndexOf(LowerChars, c) > 0 THEN UpperChars[IndexOf(LowerChars, c)]
    ELSE IF IndexOf(Latin1Lower, c) > 0 THEN Latin1Upper[IndexOf(Latin1Lower, c)]
    ELSE IF c = "ß" THEN "SS"
    ELSE IF c = "µ" \/ c = "μ" THEN "Μ"
    ELSE IF c = "ÿ" THEN NotInAlphabet(c)
    ELSE c

\* String.prototype.toLowerCase
toLowerCase(s) == [i \in DOMAIN s |-> LowerChar(s[i])]

\* String.prototype.toUpperCase: the sharp s gives two characters
RECURSIVE toUpperCase(_)
toUpperCase(s) ==
    IF Len(s) = 0 THEN <<>>
    ELSE (IF s[1] = "ß" THEN <<"S", "S">> ELSE <<UpperChar(s[1])>>) \o toUpperCase(Tail(s))

\* String.prototype.includes
includes(s, sub) ==
    \E i \in 0..(Len(s) - Len(sub)) : SubSeq(s, i + 1, i + Len(sub)) = sub

\* String.prototype.startsWith
startsWith(s, prefix) ==
    Len(s) >= Len(prefix) /\ SubSeq(s, 1, Len(prefix)) = prefix

\* Array.prototype.includes
ArrayIncludes(arr, x) == \E i \in DOMAIN arr : arr[i] = x

\* Array.prototype.join
RECURSIVE join(_, _)
join(arr, sep) ==
    IF Len(arr) = 0 THEN <<>>
    ELSE IF Len(arr) = 1 THEN arr[1]
    ELSE arr[1] \o sep \o join(Tail(arr), sep)

\* String.prototype.split on a one-character separator; "".split(sep) is [""]
RECURSIVE split(_, _)
split(s, sep) ==
    IF \E i \in DOMAIN s : s[i] = sep
    THEN LET i == CHOOSE k \in DOMAIN s : s[k] = sep /\ \A j \in 1..(k - 1) : s[j] # sep
         IN  <<SubSeq(s, 1, i - 1)>> \o split(SubSeq(s, i + 1, Len(s)), sep)
    ELSE <<s>>

\* the value undefined: a token that is no string (every string holds one-character elements)
Undefined == <<"undefined">>

\* JavaScript truthiness of a string-or-undefined value
Truthy(v) == v # Undefined /\ v # <<>>

\* Number.prototype.toString for a non-negative integer
RECURSIVE NatToString(_)
NatToString(n) ==
    IF n < 10 THEN <<DigitChars[n + 1]>>
    ELSE NatToString(n \div 10) \o <<DigitChars[(n % 10) + 1]>>

\* Number.prototype.toString for an integer
NumberToString(n) == IF n < 0 THEN <<"-">> \o NatToString(-n) ELSE NatToString(n)

\* the longest prefix of s made of characters of digits
RECURSIVE DigitPrefix(_, _)
DigitPrefix(s, digits) ==
    IF Len(s) > 0 /\ IndexOf(digits, s[1]) > 0
    THEN <<s[1]>> \o DigitPrefix(Tail(s), digits)
    ELSE <<>>

\* the number written by the digit string ds in the given radix
RECURSIVE DigitsValue(_, _, _)
DigitsValue(ds, digits, radix) ==
    IF Len(ds) = 0 THEN 0
    ELSE DigitsValue(SubSeq(ds, 1, Len(ds) - 1), digits, radix) * radix
         + (IndexOf(digits, ds[Len(ds)]) - 1)

RECURSIVE TrimLeft(_)
TrimLeft(s) == IF Len(s) > 0 /\ s[1] \in WhiteSpaceChars THEN TrimLeft(Tail(s)) ELSE s

\* parseInt, last stage: the longest run ds of digits read in the radix, NaN when empty
ParseDigits(ds, digits, radix, neg) ==
    IF Len(ds) = 0 THEN [nan |-> TRUE, val |-> 0]
    ELSE [nan |-> FALSE,
          val |-> IF neg THEN 0 - DigitsValue(ds, digits, radix)
                  ELSE DigitsValue(ds, digits, radix)]

\* parseInt after the sign: a 0x or 0X prefix selects radix 16, else radix 10
ParseUnsigned(s, neg) ==
    IF Len(s) >= 2 /\ s[1] = "0" /\ s[2] \in {"x", "X"}
    THEN ParseDigits(DigitPrefix(toLowerCase(SubSeq(s, 3, Len(s))), HexChars), HexChars, 16, neg)
    ELSE ParseDigits(DigitPrefix(s, DigitChars), DigitChars, 10, neg)

\* parseInt after the leading white space: an optional sign
ParseSigned(s) ==
    IF Len(s) > 0 /\ s[1] \in {"+", "-"}
    THEN ParseUnsigned(Tail(s), s[1] = "-")
    ELSE ParseUnsigned(s, FALSE)

\* parseInt(string) with no radix: leading white space, an optional sign, an optional
\* 0x prefix selecting radix 16, then the longest run of digits; NaN when that run is empty
parseInt(str) == ParseSigned(TrimLeft(str))

-----------------------------------------------------------------------------
(* Request Normalizer, audio-capable variant (CloudFront function) *)

SUPPORTED_FORMATS ==
    << <<"j","p","g">>, <<"j","p","e","g">>, <<"p","n","g">>,
       <<"w","e","b","p">>, <<"g","i","f">>, <<"t","i","f">>,
       <<"t","i","f","f">>, <<"a","v","i","f">>, <<"s","v","g">>,
       <<"m","p","3">>, <<"a","a","c">>, <<"a","c","3">>,
       <<"f","l","a","c">>, <<"a","l","a","c">>, <<"w","a","v">>,
       <<"m","i","d">>, <<"m","i","d","i">> >>

OptionKey_FORMAT == <<"f","o","r","m","a","t">>
OptionKey_QUALITY == <<"q","u","a","l","i","t","y">>
OptionKey_WIDTH == <<"w","i","d","t","h">>
OptionKey_HEIGHT == <<"h","e","i","g","h","t">>
OptionKey_BITRATE == <<"b","i","t","r","a","t","e">>

STR_auto == <<"a","u","t","o">>
STR_original == <<"o","r","i","g","i","n","a","l">>

\* the header request.headers.accept when absent (undefined)
NoHeader == [present |-> FALSE, value |-> <<>>]

\* isEmpty on an options object: it has no own key
isEmpty(obj) == DOMAIN obj = {}

isNotEmpty(obj) == ~isEmpty(obj)

\* obj with obj[key] = value assigned
Assign(obj, key, value) ==
    [k \in DOMAIN obj \cup {key} |-> IF k = key THEN value ELSE obj[k]]

\* obj[key], undefined when key is no own key
Get(obj, key) == IF key \in DOMAIN obj THEN obj[key] ELSE Undefined

\* getOptionValue after parseInt: a positive value, clamped to maxValue, as a string
ValidatedString(value, maxValue) ==
    IF ~value.nan /\ value.val > 0
    THEN NumberToString(IF value.val > maxValue THEN maxValue ELSE value.val)
    ELSE Undefined

\* getOptionValue with the clamp to maxValue left out
getOptionValueNoClamp(optionValue, maxValue) ==
    ValidatedString(parseInt(optionValue), 2147483647)

\* getOptionValue: parse as a number, validate, clamp, return the decimal string
getOptionValue(optionValue, maxValue) == ValidatedString(parseInt(optionValue), maxValue)

\* the first format of formats, from index i on, that accept includes
RECURSIVE FirstIncluded(_, _, _)
FirstIncluded(formats, accept, i) ==
    IF i > Len(formats) THEN Undefined
    ELSE IF includes(accept, formats[i]) THEN formats[i]
    ELSE FirstIncluded(formats, accept, i + 1)

\* getFormatByAccept without lower-casing the header value
getFormatByAcceptNoLower(acceptHeader) ==
    IF ~acceptHeader.present THEN Undefined
    ELSE IF acceptHeader.value = <<>> THEN Undefined
    ELSE FirstIncluded(SUPPORTED_FORMATS, acceptHeader.value, 1)

\* getFormatByAccept: the format the Accept header selects
getFormatByAccept(acceptHeader) ==
    IF ~acceptHeader.present THEN Undefined
    ELSE IF acceptHeader.value = <<>> THEN Undefined
    ELSE FirstIncluded(SUPPORTED_FORMATS, toLowerCase(acceptHeader.value), 1)

\* the value the format parameter contributes, the Accept header consulted for every name
\* the list of supported formats does not hold
resolveFormatByAcceptElse(formats, optionValue, byAccept) ==
    IF optionValue = STR_auto THEN byAccept
    ELSE IF ArrayIncludes(formats, optionValue) THEN optionValue
    ELSE byAccept


\* the value the format parameter contributes: auto resolves against the Accept header,
\* any other name is kept when the list of supported formats holds it
resolveFormat(formats, optionValue, byAccept) ==
    IF optionValue = STR_auto THEN byAccept
    ELSE IF ArrayIncludes(formats, optionValue) THEN optionValue
    ELSE Undefined

\* options with options[key] = value assigned when the value is truthy
AssignIfTruthy(options, key, value) ==
    IF Truthy(value) THEN Assign(options, key, value) ELSE options

\* the switch of resolveOptions: the value a lower-cased parameter contributes
switchOption(optionKey, optionValue, acceptHeader) ==
    CASE optionKey = OptionKey_FORMAT ->
             resolveFormat(SUPPORTED_FORMATS, optionValue, getFormatByAccept(acceptHeader))
      [] optionKey = OptionKey_WIDTH -> getOptionValue(optionValue, 4000)
      [] optionKey = OptionKey_HEIGHT -> getOptionValue(optionValue, 4000)
      [] optionKey = OptionKey_QUALITY -> getOptionValue(optionValue, 100)
      [] optionKey = OptionKey_BITRATE -> optionValue
      [] OTHER -> Undefined

\* the loop body of resolveOptions: one query parameter (key, rawValue) applied to options
resolveOption(options, key, rawValue, acceptHeader) ==
    IF key = <<>> \/ ~Truthy(rawValue) THEN options
    ELSE AssignIfTruthy(options, toLowerCase(key),
                        switchOption(toLowerCase(key), toLowerCase(rawValue), acceptHeader))

\* the for loop of resolveOptions over Object.keys(querystring), from index i on
RECURSIVE resolveOptionsLoop(_, _, _, _)
resolveOptionsLoop(querystring, acceptHeader, i, options) ==
    IF i > Len(querystring) THEN options
    ELSE resolveOptionsLoop(querystring, acceptHeader, i + 1,
             resolveOption(options, querystring[i].key, querystring[i].value, acceptHeader))

\* resolveOptions: the validated options of a viewer request
resolveOptions(request) ==
    IF ~request.hasQuery THEN <<>>
    ELSE resolveOptionsLoop(request.querystring, request.accept, 1, <<>>)

\* the entry "key=value" pushed on optionArray when options[key] is truthy
OptionEntry(options, key) ==
    IF Truthy(Get(options, key)) THEN << key \o <<"=">> \o options[key] >> ELSE <<>>

\* handler after resolveOptions, serializing width before quality
rewriteWidthFirst(uri, options) ==
    IF isNotEmpty(options)
    THEN uri \o <<"/">> \o
         join(OptionEntry(options, OptionKey_FORMAT) \o OptionEntry(options, OptionKey_WIDTH)
              \o OptionEntry(options, OptionKey_QUALITY) \o OptionEntry(options, OptionKey_HEIGHT)
              \o OptionEntry(options, OptionKey_BITRATE), <<",">>)
    ELSE uri \o <<"/">> \o STR_original

\* handler after resolveOptions: the uri rewritten from the original uri and the options
rewrite(uri, options) ==
    IF isNotEmpty(options)
    THEN uri \o <<"/">> \o
         join(OptionEntry(options, OptionKey_FORMAT) \o OptionEntry(options, OptionKey_QUALITY)
              \o OptionEntry(options, OptionKey_WIDTH) \o OptionEntry(options, OptionKey_HEIGHT)
              \o OptionEntry(options, OptionKey_BITRATE), <<",">>)
    ELSE uri \o <<"/">> \o STR_original

\* handler: the uri the viewer request is rewritten to
handler(request) == rewrite(request.uri, resolveOptions(request))

\* handler with the query parameters left on the request
handlerQuerystringKept(request) == request.querystring

\* handler: the querystring of the returned request (request.querystring = {})
handlerQuerystring(request) == <<>>

\* handler: the request returned, the viewer request with its uri and querystring replaced
handlerReturn(request) ==
    [request EXCEPT !.uri = handler(request), !.hasQuery = TRUE,
                    !.querystring = handlerQuerystring(request)]

-----------------------------------------------------------------------------
(* Request Normalizer, image-only variant (CloudFront function) *)

SUPPORTED_FORMATS_img ==
    << <<"j","p","g">>, <<"j","p","e","g">>, <<"p","n","g">>,
       <<"w","e","b","p">>, <<"g","i","f">>, <<"t","i","f">>,
       <<"t","i","f","f">>, <<"a","v","i","f">>, <<"s","v","g">> >>

\* getOptionValue of the image-only variant
getOptionValue_img(optionValue, maxValue) ==
    ValidatedString(parseInt(optionValue), maxValue)

\* getFormatByAccept of the image-only variant
getFormatByAccept_img(acceptHeader) ==
    IF ~acceptHeader.present THEN Undefined
    ELSE IF acceptHeader.value = <<>> THEN Undefined
    ELSE FirstIncluded(SUPPORTED_FORMATS_img, toLowerCase(acceptHeader.value), 1)

\* the switch of resolveOptions of the image-only variant
switchOption_img(optionKey, optionValue, acceptHeader) ==
    CASE optionKey = OptionKey_FORMAT ->
             resolveFormat(SUPPORTED_FORMATS_img, optionValue, getFormatByAccept_img(acceptHeader))
      [] optionKey = OptionKey_WIDTH -> getOptionValue_img(optionValue, 4000)
      [] optionKey = OptionKey_HEIGHT -> getOptionValue_img(optionValue, 4000)
      [] optionKey = OptionKey_QUALITY -> getOptionValue_img(optionValue, 100)
      [] OTHER -> Undefined

\* the loop body of resolveOptions of the image-only variant
resolveOption_img(options, key, rawValue, acceptHeader) ==
    IF key = <<>> \/ ~Truthy(rawValue) THEN options
    ELSE AssignIfTruthy(options, toLowerCase(key),
                        switchOption_img(toLowerCase(key), toLowerCase(rawValue), acceptHeader))

RECURSIVE resolveOptionsLoop_img(_, _, _, _)
resolveOptionsLoop_img(querystring, acceptHeader, i, options) ==
    IF i > Len(querystring) THEN options
    ELSE resolveOptionsLoop_img(querystring, acceptHeader, i + 1,
             resolveOption_img(options, querystring[i].key, querystring[i].value, acceptHeader))

\* resolveOptions of the image-only variant
resolveOptions_img(request) ==
    IF ~request.hasQuery THEN <<>>
    ELSE resolveOptionsLoop_img(request.querystring, request.accept, 1, <<>>)

\* handler of the image-only variant after resolveOptions: `if (options)` tests an
\* object, which is always truthy, so the else branch with /original is never taken
rewrite_img(uri, options) ==
    uri \o <<"/">> \o
    join(OptionEntry(options, OptionKey_FORMAT) \o OptionEntry(options, OptionKey_QUALITY)
         \o OptionEntry(options, OptionKey_WIDTH) \o OptionEntry(options, OptionKey_HEIGHT),
         <<",">>)

\* handler of the image-only variant
handler_img(request) == rewrite_img(request.uri, resolveOptions_img(request))

\* handler of the image-only variant: the request returned
handlerReturn_img(request) ==
    [request EXCEPT !.uri = handler_img(request), !.hasQuery = TRUE, !.querystring = <<>>]

-----------------------------------------------------------------------------
(* The viewer requests the normalizers are run on *)

Param(k, v) == [key |-> k, value |-> v]

\* query parameters: valid, invalid, clamped, mixed-case, unrecognized, empty
Params ==
    {Param(OptionKey_WIDTH, v) : v \in {<<"1","0","0">>, <<"0">>, <<"-","5">>, <<"9","9","9","9","9">>, <<"a","b","c">>, <<"1","2","p","x">>, <<>>}} \cup
    {Param(toUpperCase(OptionKey_WIDTH), v) : v \in {<<"2","0","0">>}} \cup
    {Param(OptionKey_HEIGHT, v) : v \in {<<"5","0">>}} \cup
    {Param(OptionKey_QUALITY, v) : v \in {<<"8","0">>, <<"5","0","0">>}} \cup
    {Param(OptionKey_FORMAT, v) : v \in {<<"w","e","b","p">>, <<"a","u","t","o">>, <<"b","m","p">>, <<"f","l","a","c">>}} \cup
    {Param(toUpperCase(OptionKey_FORMAT), v) : v \in {<<"A","V","I","F">>}} \cup
    {Param(OptionKey_BITRATE, v) : v \in {<<"6","4","K">>, <<"1",",","w","i","d","t","h","=","5">>}} \cup
    {Param(<<"f","o","o">>, v) : v \in {<<"b","a","r">>}} \cup
    {Param(<<>>, v) : v \in {<<"5">>}}

\* querystring objects: up to MaxParams parameters in their order, keys distinct
\* (JavaScript object keys are case-sensitive)
Queries ==
    {q \in UNION {[1..n -> Params] : n \in 0..MaxParams} :
        \A i, j \in DOMAIN q : i # j => q[i].key # q[j].key}

Header(v) == [present |-> TRUE, value |-> v]

\* Accept headers: absent, two browsers' values, a mixed-case value, no supported name
AcceptHeaders ==
    { NoHeader,
      Header(<<"i","m","a","g","e","/","w","e","b","p",",","i","m","a","g","e","/","*">>),
      Header(<<"i","m","a","g","e","/","a","v","i","f">>),
      Header(<<"I","M","A","G","E","/","A","V","I","F",",","i","m","a","g","e","/","W","e","b","P">>),
      Header(<<"t","e","x","t","/","h","t","m","l">>) }

URI_image == <<"/","a",".","j","p","g">>

Request(uri, q, a) ==
    [method |-> "GET", uri |-> uri, hasQuery |-> TRUE, querystring |-> q, accept |-> a]

\* the Accept headers a query is paired with: all of them when a parameter asks for
\* format=auto, else an absent header and one browser's value
AcceptHeadersFor(q) ==
    IF \E i \in DOMAIN q : toLowerCase(q[i].value) = STR_auto
    THEN AcceptHeaders
    ELSE {NoHeader, Header(<<"i","m","a","g","e","/","w","e","b","p",",","i","m","a","g","e","/","*">>)}

ViewerRequests ==
    UNION {{Request(URI_image, q, a) : a \in AcceptHeadersFor(q)} : q \in Queries}
    \cup {[method |-> "GET", uri |-> URI_image, hasQuery |-> FALSE, querystring |-> <<>>,
           accept |-> NoHeader]}
    \cup {[method |-> "HEAD", uri |-> URI_image, hasQuery |-> TRUE,
           querystring |-> <<Param(OptionKey_WIDTH, <<"1","0","0">>), Param(<<"f","o","o">>, <<"b","a","r">>)>>,
           accept |-> Header(<<"i","m","a","g","e","/","a","v","i","f">>)]}

-----------------------------------------------------------------------------
(* SpecNorm: each normalizer applied to a viewer request *)

InitNorm ==
    /\ req \in ViewerRequests
    /\ resA = <<>>
    /\ resI = <<>>
    /\ qsA = req.querystring
    /\ done = {}
    /\ retA = req
    /\ retI = req
    /\ stack = NoStack
    /\ engineKind = "inline"
    /\ secretKey = Undefined
    /\ cacheBucket = TRUE
    /\ cache = {}
    /\ expired = {}
    /\ cl = <<>>

\* the audio-capable CloudFront function handles the viewer request
NormalizeAudio ==
    /\ "audio" \notin done
    /\ resA' = handler(req)
    /\ qsA' = handlerQuerystring(req)
    /\ retA' = handlerReturn(req)
    /\ done' = done \cup {"audio"}
    /\ UNCHANGED <<req, resI, retI, sysVars, stack>>

\* the image-only CloudFront function handles the viewer request
NormalizeImage ==
    /\ "image" \notin done
    /\ resI' = handler_img(req)
    /\ retI' = handlerReturn_img(req)
    /\ done' = done \cup {"image"}
    /\ UNCHANGED <<req, resA, qsA, retA, sysVars, stack>>

NextNorm == NormalizeAudio \/ NormalizeImage

SpecNorm == InitNorm /\ [][NextNorm]_vars

-----------------------------------------------------------------------------
(* Properties of the Request Normalizer, checked under SpecNorm *)

\* the fixed serialization order of the directive keys
FixedOrder ==
    <<OptionKey_FORMAT, OptionKey_QUALITY, OptionKey_WIDTH, OptionKey_HEIGHT, OptionKey_BITRATE>>

NumericKeys == {OptionKey_WIDTH, OptionKey_HEIGHT, OptionKey_QUALITY}

MaxOf(key) == IF key = OptionKey_QUALITY THEN 100 ELSE 4000

\* the request with its query parameters replaced
WithQuery(r, q) == [r EXCEPT !.querystring = q]

\* every reordering of a parameter sequence
Reorderings(q) ==
    {[i \in DOMAIN q |-> q[f[i]]] : f \in Permutations(DOMAIN q)}

\* the directive string of a rewritten uri: what follows "{path}/"
DirectiveOf(r, uri) == SubSeq(uri, Len(r.uri) + 2, Len(uri))

\* the parameters of r whose lower-cased key is key
ParamsOf(r, key) == {i \in DOMAIN r.querystring : toLowerCase(r.querystring[i].key) = key}

\* s is a run of decimal digits writing a positive integer
IsPositiveDecimal(s) ==
    /\ Len(s) > 0
    /\ \A i \in DOMAIN s : IndexOf(DigitChars, s[i]) > 0
    /\ \E i \in DOMAIN s : s[i] # "0"

\* s is the decimal string of an integer in lo..hi: digits only, no leading zero
IsDecimalIn(s, lo, hi) ==
    /\ IsPositiveDecimal(s)
    /\ s[1] # "0"
    /\ DigitsValue(s, DigitChars, 10) \in lo..hi

\* the string "k=v,k=v,..." of the directives of options, keys taken in FixedOrder
Serialized(options) ==
    LET keys == SelectSeq(FixedOrder, LAMBDA k : k \in DOMAIN options)
    IN  join([i \in DOMAIN keys |-> keys[i] \o <<"=">> \o options[keys[i]]], <<",">>)

\* C1 (as claimed): every ordering of the query parameters of a request, keys that differ
\* only in letter case included, is rewritten to the same path.
CexC1_OrderIndependent ==
    "audio" \in done =>
        \A q \in Reorderings(req.querystring) : handler(WithQuery(req, q)) = resA

\* C2 (as claimed): a request that yields no accepted directive is rewritten to
\* {path}/original by the audio-capable normalizer and by the image-only normalizer.
CexC2_SentinelBoth ==
    /\ ("audio" \in done /\ isEmpty(resolveOptions(req)))
           => resA = req.uri \o <<"/">> \o STR_original
    /\ ("image" \in done /\ isEmpty(resolveOptions_img(req)))
           => resI = req.uri \o <<"/">> \o STR_original

\* C3: when the accepted directive set is not empty the rewritten uri is {path}/ followed
\* by the accepted directives as key=value joined by "," in the order format, quality,
\* width, height, bitrate, each key once, whatever the order of the query parameters.
ThmC3_FixedOrder ==
    /\ ("audio" \in done /\ isNotEmpty(resolveOptions(req)))
           => resA = req.uri \o <<"/">> \o Serialized(resolveOptions(req))
    /\ ("image" \in done /\ isNotEmpty(resolveOptions_img(req)))
           => resI = req.uri \o <<"/">> \o Serialized(resolveOptions_img(req))

\* C3 witness: width came before format in the query and format is serialized first.
WitC3_FixedOrder ==
    /\ done = {"audio", "image"}
    /\ Len(req.querystring) = 2
    /\ req.querystring[1] = Param(OptionKey_WIDTH, <<"1","0","0">>)
    /\ req.querystring[2] = Param(OptionKey_FORMAT, <<"w","e","b","p">>)
    /\ resA = URI_image \o <<"/","f","o","r","m","a","t","=","w","e","b","p",",","w","i","d","t","h","=","1","0","0">>
    /\ resI = resA

-----------------------------------------------------------------------------
(* Transform Engine: parsing the directive string *)

\* the largest array index, 2^32 - 2, in decimal
MaxArrayIndex == <<"4","2","9","4","9","6","7","2","9","4">>

\* of two numerals without leading zeros, a is the smaller
RECURSIVE NumeralLess(_, _)
NumeralLess(a, b) ==
    IF Len(a) # Len(b) THEN Len(a) < Len(b)
    ELSE IF Len(a) = 0 THEN FALSE
    ELSE IF a[1] # b[1] THEN IndexOf(DigitChars, a[1]) < IndexOf(DigitChars, b[1])
    ELSE NumeralLess(Tail(a), Tail(b))

\* a property key that is an array index: the canonical numeral of an integer from 0 to
\* 2^32 - 2
IsArrayIndex(key) ==
    /\ key # Undefined
    /\ Len(key) > 0
    /\ \A i \in DOMAIN key : IndexOf(DigitChars, key[i]) > 0
    /\ (Len(key) = 1 \/ key[1] # "0")
    /\ ~NumeralLess(MaxArrayIndex, key)

STR_proto == <<"_","_","p","r","o","t","o","_","_">>

\* the number of entries of obj that own-key order lists before a new key: for an array
\* index the smaller array indices, for any other key all the entries
EntriesBefore(obj, key) ==
    IF IsArrayIndex(key)
    THEN Cardinality({i \in DOMAIN obj : IsArrayIndex(obj[i].key) /\ NumeralLess(obj[i].key, key)})
    ELSE Len(obj)

\* a JavaScript object as its entries in own-key order (array indices ascending, then
\* the other keys in insertion order): obj[key] = value replaces the value of an own key
\* in place and adds a new key at its place in that order; a string or undefined
\* assigned to __proto__ goes to the prototype setter, which ignores it
ObjectSet(obj, key, value) ==
    IF key = STR_proto THEN obj
    ELSE IF \E i \in DOMAIN obj : obj[i].key = key
    THEN [i \in DOMAIN obj |-> IF obj[i].key = key THEN Param(key, value) ELSE obj[i]]
    ELSE SubSeq(obj, 1, EntriesBefore(obj, key))
         \o <<Param(key, value)>>
         \o SubSeq(obj, EntriesBefore(obj, key) + 1, Len(obj))

\* obj[key] of an object given by its entries, undefined when key is no own key
ObjectGet(obj, key) ==
    IF \E i \in DOMAIN obj : obj[i].key = key
    THEN obj[CHOOSE i \in DOMAIN obj : obj[i].key = key].value
    ELSE Undefined

\* the for loop of the engine's resolveOptions over optionArray, from index i on
RECURSIVE engine_resolveOptionsLoop(_, _, _)
engine_resolveOptionsLoop(optionArray, i, options) ==
    IF i > Len(optionArray) THEN options
    ELSE LET optionKV == split(optionArray[i], "=")
         IN  engine_resolveOptionsLoop(optionArray, i + 1,
                 ObjectSet(options, optionKV[1],
                           IF Len(optionKV) >= 2 THEN optionKV[2] ELSE Undefined))

\* the engine's resolveOptions: the directive string parsed into a key -> value object
engine_resolveOptions(optionString) ==
    IF optionString = <<>> THEN <<>>
    ELSE engine_resolveOptionsLoop(split(optionString, ","), 1, <<>>)

-----------------------------------------------------------------------------
(* Properties of the Request Normalizer, continued *)

\* the request whose query parameters are the key=value pairs of a directive string
Renormalized(r, directive) ==
    [r EXCEPT !.hasQuery = TRUE, !.querystring = engine_resolveOptions(directive)]

\* C6: for every request, normalizing the request whose query parameters are the key=value
\* pairs of the directive string produced yields the same rewritten path. Violated by a
\* bitrate value holding "," or "=", which the normalizer copies into the directive string.
CexC6_Idempotent ==
    "audio" \in done => handler(Renormalized(req, DirectiveOf(req, resA))) = resA

\* C7 (as claimed): a width, height or quality value that is not the decimal string of a
\* positive integer makes the normalizer drop that key.
CexC7_DropsNonDecimal ==
    "audio" \in done =>
        \A key \in NumericKeys :
            (/\ Cardinality(ParamsOf(req, key)) = 1
             /\ \A i \in ParamsOf(req, key) : ~IsPositiveDecimal(req.querystring[i].value))
                => key \notin DOMAIN resolveOptions(req)

\* C8: every width or height emitted is the decimal string of an integer in 1..4000 and
\* every quality that of an integer in 1..100; a positive value above the maximum is
\* emitted as the maximum, a positive value within the range is emitted unchanged.
ThmC8_ClampRange ==
    /\ "audio" \in done =>
          LET options == resolveOptions(req)
          IN  \A key \in NumericKeys :
                /\ key \in DOMAIN options
                     => /\ IsDecimalIn(options[key], 1, MaxOf(key))
                        /\ includes(resA, key \o <<"=">> \o options[key])
                /\ \A i \in ParamsOf(req, key) :
                     (Cardinality(ParamsOf(req, key)) = 1
                        /\ IsPositiveDecimal(req.querystring[i].value))
                     => LET n == DigitsValue(req.querystring[i].value, DigitChars, 10)
                        IN  /\ key \in DOMAIN options
                            /\ n > MaxOf(key) => DigitsValue(options[key], DigitChars, 10) = MaxOf(key)
                            /\ n <= MaxOf(key) => DigitsValue(options[key], DigitChars, 10) = n
    /\ "image" \in done =>
          LET options == resolveOptions_img(req)
          IN  \A key \in NumericKeys :
                key \in DOMAIN options
                     => /\ IsDecimalIn(options[key], 1, MaxOf(key))
                        /\ includes(resI, key \o <<"=">> \o options[key])

\* C8 witness: width=99999 was emitted as width=4000 and quality=500 as quality=100.
WitC8_ClampRange ==
    /\ done = {"audio", "image"}
    /\ \E i, j \in DOMAIN req.querystring :
          /\ req.querystring[i] = Param(OptionKey_WIDTH, <<"9","9","9","9","9">>)
          /\ req.querystring[j] = Param(OptionKey_QUALITY, <<"5","0","0">>)
    /\ resA = URI_image \o <<"/","q","u","a","l","i","t","y","=","1","0","0",",","w","i","d","t","h","=","4","0","0","0">>
    /\ resI = resA

\* the least element of a non-empty set of integers
Least(S) == CHOOSE x \in S : \A y \in S : x <= y

\* the sequence q without its element i
Without(q, i) == SubSeq(q, 1, i - 1) \o SubSeq(q, i + 1, Len(q))

\* C9: for format=auto the format emitted is the first name of the supported-format list
\* that occurs in the lower-cased Accept header value; when the header is missing, empty
\* or holds no supported name no format is emitted and the other directives are kept.
ThmC9_AutoFormat ==
    "audio" \in done =>
        \A i \in ParamsOf(req, OptionKey_FORMAT) :
            (/\ Cardinality(ParamsOf(req, OptionKey_FORMAT)) = 1
             /\ toLowerCase(req.querystring[i].value) = STR_auto)
            => LET accept == IF req.accept.present THEN toLowerCase(req.accept.value) ELSE <<>>
                   named == {k \in DOMAIN SUPPORTED_FORMATS : includes(accept, SUPPORTED_FORMATS[k])}
                   options == resolveOptions(req)
                   others == resolveOptions(WithQuery(req, Without(req.querystring, i)))
               IN  /\ named # {} => Get(options, OptionKey_FORMAT) = SUPPORTED_FORMATS[Least(named)]
                   /\ named = {} => OptionKey_FORMAT \notin DOMAIN options
                   /\ \A key \in DOMAIN options \cup DOMAIN others :
                         key # OptionKey_FORMAT => Get(options, key) = Get(others, key)
                   /\ req.accept = Header(<<"i","m","a","g","e","/","w","e","b","p",",","i","m","a","g","e","/","*">>)
                         => includes(resA, <<"f","o","r","m","a","t","=","w","e","b","p">>)
                   /\ req.accept = Header(<<"i","m","a","g","e","/","a","v","i","f">>)
                         => includes(resA, <<"f","o","r","m","a","t","=","a","v","i","f">>)
                   /\ isEmpty(options) => resA = req.uri \o <<"/">> \o STR_original

\* C9 witness: format=auto with a mixed-case Accept header naming avif and webp resolved
\* to webp, the earlier name of the list, and the width directive was kept.
WitC9_AutoFormat ==
    /\ "audio" \in done
    /\ req.accept = Header(<<"I","M","A","G","E","/","A","V","I","F",",","i","m","a","g","e","/","W","e","b","P">>)
    /\ req.querystring = <<Param(OptionKey_FORMAT, STR_auto), Param(OptionKey_WIDTH, <<"1","0","0">>)>>
    /\ resA = URI_image \o <<"/","f","o","r","m","a","t","=","w","e","b","p",",","w","i","d","t","h","=","1","0","0">>

\* the querystring object of the event for a list of query parameters: one entry per
\* name, holding the first of the values given under that name
RECURSIVE EventQuerystring(_, _, _)
EventQuerystring(params, i, obj) ==
    IF i > Len(params) THEN obj
    ELSE IF \E j \in DOMAIN obj : obj[j].key = params[i].key
    THEN EventQuerystring(params, i + 1, obj)
    ELSE EventQuerystring(params, i + 1, ObjectSet(obj, params[i].key, params[i].value))

\* the parameter lists that differ from q in the letter case of keys or values only; a
\* changed key may repeat the name of another parameter
CaseVariants(q) ==
    LET allUpper == [i \in DOMAIN q |-> Param(toUpperCase(q[i].key), toUpperCase(q[i].value))]
        allLower == [i \in DOMAIN q |-> Param(toLowerCase(q[i].key), toLowerCase(q[i].value))]
        one == UNION {{[q EXCEPT ![i].key = toUpperCase(q[i].key)],
                       [q EXCEPT ![i].key = toLowerCase(q[i].key)],
                       [q EXCEPT ![i].value = toUpperCase(q[i].value)],
                       [q EXCEPT ![i].value = toLowerCase(q[i].value)]} : i \in DOMAIN q}
    IN  one \cup {allUpper, allLower}

\* C10: changing the letter case of query parameter keys or values does not change the
\* rewritten path, and the directive string holds no upper-case letter. Violated by two
\* parameters whose names differ in case only: the later one wins, but once they are spelled
\* alike the event holds the value of the first.
CexC10_CaseInsensitive ==
    "audio" \in done =>
        /\ \A q \in CaseVariants(req.querystring) :
               handler(WithQuery(req, EventQuerystring(q, 1, <<>>))) = resA
        /\ \A i \in DOMAIN DirectiveOf(req, resA) :
               IndexOf(UpperChars, DirectiveOf(req, resA)[i]) = 0

-----------------------------------------------------------------------------
(* Transform Engine: the media registries and the pure functions of the handler *)

MediaType_IMAGE == <<"i","m","a","g","e">>
MediaType_AUDIO == <<"a","u","d","i","o">>

\* the ImageFormat registry, in its key order
ImageFormat ==
    << [Name |-> <<"j","p","g">>,  Format |-> "jpeg", ContentType |-> <<"i","m","a","g","e","/","j","p","e","g">>,    SupportQuality |-> TRUE],
       [Name |-> <<"j","p","e","g">>, Format |-> "jpeg", ContentType |-> <<"i","m","a","g","e","/","j","p","e","g">>,    SupportQuality |-> TRUE],
       [Name |-> <<"p","n","g">>,  Format |-> "png",  ContentType |-> <<"i","m","a","g","e","/","p","n","g">>,     SupportQuality |-> FALSE],
       [Name |-> <<"w","e","b","p">>, Format |-> "webp", ContentType |-> <<"i","m","a","g","e","/","w","e","b","p">>,    SupportQuality |-> TRUE],
       [Name |-> <<"g","i","f">>,  Format |-> "gif",  ContentType |-> <<"i","m","a","g","e","/","g","i","f">>,     SupportQuality |-> FALSE],
       [Name |-> <<"t","i","f">>,  Format |-> "tiff", ContentType |-> <<"i","m","a","g","e","/","t","i","f","f">>,    SupportQuality |-> TRUE],
       [Name |-> <<"t","i","f","f">>, Format |-> "tiff", ContentType |-> <<"i","m","a","g","e","/","t","i","f","f">>,    SupportQuality |-> TRUE],
       [Name |-> <<"a","v","i","f">>, Format |-> "avif", ContentType |-> <<"i","m","a","g","e","/","a","v","i","f">>,    SupportQuality |-> TRUE],
       [Name |-> <<"s","v","g">>,  Format |-> "svg",  ContentType |-> <<"i","m","a","g","e","/","s","v","g","+","x","m","l">>, SupportQuality |-> FALSE] >>

\* the AudioFormat registry of the engine answering inline
AudioFormat_inline ==
    << [Name |-> <<"m","p","3">>,  Codec |-> "libmp3lame", Format |-> <<"m","p","3">>,  ContentType |-> <<"a","u","d","i","o","/","m","p","e","g">>, SupportBitrate |-> TRUE],
       [Name |-> <<"a","a","c">>,  Codec |-> "aac",        Format |-> <<"a","a","c">>,  ContentType |-> <<"a","u","d","i","o","/","a","a","c">>,  SupportBitrate |-> TRUE],
       [Name |-> <<"a","c","3">>,  Codec |-> "ac3",        Format |-> <<"a","c","3">>,  ContentType |-> <<"a","u","d","i","o","/","a","c","3">>,  SupportBitrate |-> TRUE],
       [Name |-> <<"f","l","a","c">>, Codec |-> "flac",       Format |-> <<"f","l","a","c">>, ContentType |-> <<"a","u","d","i","o","/","f","l","a","c">>, SupportBitrate |-> FALSE],
       [Name |-> <<"a","l","a","c">>, Codec |-> "alac",       Format |-> <<"a","l","a","c">>, ContentType |-> <<"a","u","d","i","o","/","a","l","a","c">>, SupportBitrate |-> FALSE],
       [Name |-> <<"w","a","v">>,  Codec |-> "pcm_s16le",  Format |-> <<"w","a","v">>,  ContentType |-> <<"a","u","d","i","o","/","w","a","v">>,  SupportBitrate |-> FALSE],
       [Name |-> <<"m","i","d">>,  Codec |-> "midi",       Format |-> <<"m","i","d","i">>, ContentType |-> <<"a","u","d","i","o","/","m","i","d","i">>, SupportBitrate |-> FALSE],
       [Name |-> <<"m","i","d","i">>, Codec |-> "midi",       Format |-> <<"m","i","d","i">>, ContentType |-> <<"a","u","d","i","o","/","m","i","d","i">>, SupportBitrate |-> FALSE] >>

\* the AudioFormat registry of the engine answering with a redirect
AudioFormat_redirect ==
    << [Name |-> <<"m","p","3">>,  Codec |-> "libmp3lame", Format |-> <<"m","p","3">>,  ContentType |-> <<"a","u","d","i","o","/","m","p","e","g">>,      SupportBitrate |-> TRUE],
       [Name |-> <<"a","a","c">>,  Codec |-> "aac",        Format |-> <<"a","a","c">>,  ContentType |-> <<"a","u","d","i","o","/","a","a","c">>,       SupportBitrate |-> TRUE],
       [Name |-> <<"a","c","3">>,  Codec |-> "ac3",        Format |-> <<"a","c","3">>,  ContentType |-> <<"a","u","d","i","o","/","a","c","3">>,       SupportBitrate |-> TRUE],
       [Name |-> <<"f","l","a","c">>, Codec |-> "flac",       Format |-> <<"f","l","a","c">>, ContentType |-> <<"a","u","d","i","o","/","f","l","a","c">>,      SupportBitrate |-> FALSE],
       [Name |-> <<"m","4","a">>,  Codec |-> "alac",       Format |-> <<"m","4","a">>,  ContentType |-> <<"a","u","d","i","o","/","m","p","4","a","-","l","a","t","m">>, SupportBitrate |-> FALSE],
       [Name |-> <<"w","a","v">>,  Codec |-> "pcm_s16le",  Format |-> <<"w","a","v">>,  ContentType |-> <<"a","u","d","i","o","/","w","a","v">>,       SupportBitrate |-> FALSE] >>

\* the registry and the default bitrate of each engine
AudioFormat(kind) == IF kind = "redirect" THEN AudioFormat_redirect ELSE AudioFormat_inline

defaultBitrate(kind) == IF kind = "redirect" THEN <<"6","4","k">> ELSE <<"3","2","k">>

\* no registry entry (undefined)
NoFormat == [Name |-> Undefined]

\* the first registry entry whose Name is format, undefined when there is none
resolveFormatIn(registry, format) ==
    IF Truthy(format) /\ \E i \in DOMAIN registry : registry[i].Name = format
    THEN registry[CHOOSE i \in DOMAIN registry :
                      registry[i].Name = format /\ \A j \in 1..(i - 1) : registry[j].Name # format]
    ELSE NoFormat

resolveImageFormat(format) == resolveFormatIn(ImageFormat, format)

resolveAudioFormat(kind, format) == resolveFormatIn(AudioFormat(kind), format)

\* requestPath.split('/'), then pop: the directive string
optionStringOf(requestPath) == split(requestPath, "/")[Len(split(requestPath, "/"))]

\* the key of the original object with the leading empty segment kept
originFilePathKeepLeading(requestPath) ==
    join(SubSeq(split(requestPath, "/"), 1, Len(split(requestPath, "/")) - 1), <<"/">>)


\* requestPath.split('/'), then pop, shift and join('/'): the key of the original object
originFilePathOf(requestPath) ==
    join(SubSeq(split(requestPath, "/"), 2, Len(split(requestPath, "/")) - 1), <<"/">>)

\* cacheKey with the directive string left out
cacheKeyNoOptions(originFilePath, optionString) == originFilePath

\* cacheKey = `${originFilePath}/${optionString}`
cacheKeyOf(originFilePath, optionString) == originFilePath \o <<"/">> \o optionString

\* the cache key the handler computes from the request path
cacheKey(requestPath) == cacheKeyOf(originFilePathOf(requestPath), optionStringOf(requestPath))

\* isImage: an image content type and a truthy format, quality, width or height
isImage(contentType, options) ==
    /\ Truthy(contentType)
    /\ startsWith(toLowerCase(contentType), MediaType_IMAGE)
    /\ \/ Truthy(ObjectGet(options, OptionKey_FORMAT))
       \/ Truthy(ObjectGet(options, OptionKey_QUALITY))
       \/ Truthy(ObjectGet(options, OptionKey_WIDTH))
       \/ Truthy(ObjectGet(options, OptionKey_HEIGHT))

\* isAudio: an audio content type and a truthy format or bitrate
isAudio(contentType, options) ==
    /\ Truthy(contentType)
    /\ startsWith(toLowerCase(contentType), MediaType_AUDIO)
    /\ \/ Truthy(ObjectGet(options, OptionKey_FORMAT))
       \/ Truthy(ObjectGet(options, OptionKey_BITRATE))

isSupported(contentType, options) ==
    Truthy(contentType) /\ (isImage(contentType, options) \/ isAudio(contentType, options))

\* the handler's test for uploading the original unchanged
noTransform(optionString, contentType, options) ==
    optionString = STR_original \/ ~isSupported(contentType, options)

\* the index of the last occurrence of character c in s, 0 when absent
LastIndexOf(s, c) ==
    IF \E i \in DOMAIN s : s[i] = c
    THEN CHOOSE i \in DOMAIN s : s[i] = c /\ \A j \in (i + 1)..Len(s) : s[j] # c
    ELSE 0

\* a path without its trailing "/" characters
RECURSIVE StripTrailingSlashes(_)
StripTrailingSlashes(p) ==
    IF Len(p) > 0 /\ p[Len(p)] = "/" THEN StripTrailingSlashes(SubSeq(p, 1, Len(p) - 1)) ELSE p

\* the last segment of a path, trailing "/" characters ignored
basename(p) ==
    SubSeq(StripTrailingSlashes(p), LastIndexOf(StripTrailingSlashes(p), "/") + 1,
           Len(StripTrailingSlashes(p)))

\* the extension of a base name: from its last "." on; empty when there is no ".", when
\* the last "." is the first character, and for ".."
extnameOfBase(b) ==
    IF LastIndexOf(b, ".") <= 1 \/ b = <<".", ".">> THEN <<>>
    ELSE SubSeq(b, LastIndexOf(b, "."), Len(b))

\* path.extname
extname(p) == extnameOfBase(basename(p))

\* trimStart(str, prefix)
trimStart(str, prefix) ==
    IF ~Truthy(str) \/ ~Truthy(prefix) THEN str
    ELSE IF startsWith(str, prefix) THEN SubSeq(str, Len(prefix) + 1, Len(str))
    ELSE str

\* computeBitrate handing on the bitrate whatever the format supports
bitrateForAlways(bitrate, format, default) == IF Truthy(bitrate) THEN bitrate ELSE default


\* computeBitrate once the format in force is known: the target format, else the source format
bitrateFor(bitrate, format, default) ==
    IF format.Name # Undefined /\ format.SupportBitrate
    THEN (IF Truthy(bitrate) THEN bitrate ELSE default)
    ELSE Undefined

\* computeBitrate: the bitrate handed to the encoder, undefined for none
computeBitrate(kind, bitrate, audioFormat, inputExt) ==
    IF audioFormat.Name # Undefined
    THEN bitrateFor(bitrate, audioFormat, defaultBitrate(kind))
    ELSE bitrateFor(bitrate, resolveAudioFormat(kind, trimStart(inputExt, <<".">>)), defaultBitrate(kind))

\* no resize dimension, no quality
None == [nan |-> TRUE, val |-> -1]

\* a resize dimension or quality: parseInt of a truthy option, none otherwise
IntOption(v) == IF Truthy(v) THEN parseInt(v) ELSE None

\* sharp rejects a dimension that is no positive integer
BadDimension(d) == d # None /\ (d.nan \/ d.val <= 0)

\* sharp rejects a quality that is no integer between 1 and 100
BadQuality(q) == q.nan \/ q.val < 1 \/ q.val > 100

\* the format ids toFormat of sharp accepts; it throws for any other, such as svg or a
\* content type
SharpFormats ==
    {"heic", "heif", "avif", "jpeg", "jpg", "jpe", "tile", "dz", "png", "raw", "tiff", "tif",
     "webp", "gif", "jp2", "jpx", "j2k", "j2c", "jxl"}

\* transImage once the target format is resolved, the quality passed for every format
transImageToAnyQuality(imageFile, width, height, imageFormat, quality) ==
    IF ~imageFile.Decodable \/ BadDimension(width) \/ BadDimension(height)
    THEN [ok |-> FALSE]
    ELSE IF imageFormat.Name = Undefined
    THEN [ok |-> TRUE, ContentType |-> imageFile.ContentType,
          Buff |-> [of |-> imageFile.Body, by |-> "sharp", width |-> width, height |-> height,
                    rotate |-> imageFile.Orientation, format |-> "input",
                    quality |-> None, bitrate |-> Undefined]]
    ELSE IF imageFormat.Format \notin SharpFormats
    THEN [ok |-> FALSE]
    ELSE IF Truthy(quality)
    THEN IF BadQuality(parseInt(quality)) THEN [ok |-> FALSE]
         ELSE [ok |-> TRUE, ContentType |-> imageFormat.ContentType,
               Buff |-> [of |-> imageFile.Body, by |-> "sharp", width |-> width, height |-> height,
                         rotate |-> imageFile.Orientation, format |-> imageFormat.Format,
                         quality |-> parseInt(quality), bitrate |-> Undefined]]
    ELSE [ok |-> TRUE, ContentType |-> imageFormat.ContentType,
          Buff |-> [of |-> imageFile.Body, by |-> "sharp", width |-> width, height |-> height,
                    rotate |-> imageFile.Orientation, format |-> imageFormat.Format,
                    quality |-> None, bitrate |-> Undefined]]


\* transImage once the target format is resolved
transImageTo(imageFile, width, height, imageFormat, quality) ==
    IF ~imageFile.Decodable \/ BadDimension(width) \/ BadDimension(height)
    THEN [ok |-> FALSE]
    ELSE IF imageFormat.Name = Undefined
    THEN [ok |-> TRUE, ContentType |-> imageFile.ContentType,
          Buff |-> [of |-> imageFile.Body, by |-> "sharp", width |-> width, height |-> height,
                    rotate |-> imageFile.Orientation, format |-> "input",
                    quality |-> None, bitrate |-> Undefined]]
    ELSE IF imageFormat.Format \notin SharpFormats
    THEN [ok |-> FALSE]
    ELSE IF imageFormat.SupportQuality /\ Truthy(quality)
    THEN IF BadQuality(parseInt(quality)) THEN [ok |-> FALSE]
         ELSE [ok |-> TRUE, ContentType |-> imageFormat.ContentType,
               Buff |-> [of |-> imageFile.Body, by |-> "sharp", width |-> width, height |-> height,
                         rotate |-> imageFile.Orientation, format |-> imageFormat.Format,
                         quality |-> parseInt(quality), bitrate |-> Undefined]]
    ELSE [ok |-> TRUE, ContentType |-> imageFormat.ContentType,
          Buff |-> [of |-> imageFile.Body, by |-> "sharp", width |-> width, height |-> height,
                    rotate |-> imageFile.Orientation, format |-> imageFormat.Format,
                    quality |-> None, bitrate |-> Undefined]]

\* transImage: resize, rotate by the orientation tag, convert to the target format
transImage(imageFile, options) ==
    transImageTo(imageFile,
                 IntOption(ObjectGet(options, OptionKey_WIDTH)),
                 IntOption(ObjectGet(options, OptionKey_HEIGHT)),
                 resolveImageFormat(ObjectGet(options, OptionKey_FORMAT)),
                 ObjectGet(options, OptionKey_QUALITY))

\* transAudio once the target format and the bitrate are resolved: what the ffmpeg command
\* line encodes. The routine starts that command twice on one output file (save, then
\* run) and returns at the first end or error; FfmpegStarted and FfmpegExit follow the
\* process that is left.
transAudioTo(audioFile, audioFormat, bitrate) ==
    IF ~audioFile.Decodable THEN [ok |-> FALSE]
    ELSE [ok |-> TRUE,
          ContentType |-> IF audioFormat.Name # Undefined THEN audioFormat.ContentType
                          ELSE audioFile.ContentType,
          Buff |-> [of |-> audioFile.Body, by |-> "ffmpeg", width |-> None, height |-> None,
                    rotate |-> FALSE,
                    format |-> IF audioFormat.Name # Undefined THEN audioFormat.Codec ELSE "input",
                    quality |-> None, bitrate |-> bitrate]]

\* transAudio: re-encode with the codec of the target format and the computed bitrate
transAudioWith(kind, audioFile, bitrate, audioFormat, audioFileKey) ==
    transAudioTo(audioFile, audioFormat,
                 computeBitrate(kind, bitrate, audioFormat, extname(audioFileKey)))

transAudio(kind, audioFile, options, audioFileKey) ==
    transAudioWith(kind, audioFile, ObjectGet(options, OptionKey_BITRATE),
                   resolveAudioFormat(kind, ObjectGet(options, OptionKey_FORMAT)), audioFileKey)

\* the original bytes, uploaded unchanged
Unchanged(originFileObj) ==
    [ok |-> TRUE, ContentType |-> originFileObj.ContentType,
     Buff |-> [of |-> originFileObj.Body, by |-> "none", width |-> None, height |-> None,
               rotate |-> FALSE, format |-> "input", quality |-> None, bitrate |-> Undefined]]

\* the handler between download and upload: the original unchanged, or the transformation
transformed(kind, originFileObj, originFilePath, optionString, options) ==
    IF noTransform(optionString, originFileObj.ContentType, options)
    THEN Unchanged(originFileObj)
    ELSE IF isImage(originFileObj.ContentType, options)
    THEN transImage(originFileObj, options)
    ELSE transAudio(kind, originFileObj, options, originFilePath)

-----------------------------------------------------------------------------
(* Transform Engine: the handler with the single MediaFormat registry *)

\* the MediaFormat registry, in its key order: the image formats and aac
MediaFormat ==
    [i \in 1..(Len(ImageFormat) + 1) |->
        IF i <= Len(ImageFormat)
        THEN [Name |-> ImageFormat[i].Name, Type |-> MediaType_IMAGE,
              Format |-> ImageFormat[i].Format, ContentType |-> ImageFormat[i].ContentType,
              SupportQuality |-> ImageFormat[i].SupportQuality]
        ELSE [Name |-> <<"a","a","c">>, Type |-> MediaType_AUDIO, Format |-> "aac",
              ContentType |-> <<"a","u","d","i","o","/","a","a","c">>, SupportQuality |-> FALSE]]

\* resolveFormat(operations) of this handler
legacy_resolveFormat(operations) == resolveFormatIn(MediaFormat, ObjectGet(operations, OptionKey_FORMAT))

\* isSupported(contentType) of this handler: the content type alone decides
legacy_isSupported(contentType) ==
    /\ Truthy(contentType)
    /\ \/ startsWith(toLowerCase(contentType), MediaType_IMAGE)
       \/ startsWith(toLowerCase(contentType), MediaType_AUDIO)

\* the handler sends the file to transImage when no format is resolved or it is an image format
legacy_toImage(mediaFormat) == mediaFormat.Name = Undefined \/ mediaFormat.Type = MediaType_IMAGE

\* a file as the decoder of one media type reads it: bytes of the other media type are
\* rejected (the bytes of an object are taken to be of the media type its content type names)
DecodedAs(file, mediaType) ==
    [file EXCEPT !.Decodable = @ /\ startsWith(toLowerCase(file.ContentType), mediaType)]

\* the handler between download and upload
legacy_transformed(originFileObj, optionsPrefix, operations, mediaFormat) ==
    IF optionsPrefix = STR_original \/ ~legacy_isSupported(originFileObj.ContentType)
    THEN Unchanged(originFileObj)
    ELSE IF legacy_toImage(mediaFormat)
    THEN transImageTo(DecodedAs(originFileObj, MediaType_IMAGE),
                      IntOption(ObjectGet(operations, OptionKey_WIDTH)),
                      IntOption(ObjectGet(operations, OptionKey_HEIGHT)),
                      mediaFormat, ObjectGet(operations, OptionKey_QUALITY))
    ELSE transAudioTo(DecodedAs(originFileObj, MediaType_AUDIO),
                      [Name |-> mediaFormat.Name, Codec |-> mediaFormat.Format,
                       ContentType |-> mediaFormat.ContentType],
                      <<"3","2","k">>)

-----------------------------------------------------------------------------
(* Transform Engine: the redirect answer and the client's re-fetch *)

\* the printable ASCII characters of codes 32 to 95
AsciiFrom32 ==
    <<" ","!","\"","#","$","%","&","'","(",")","*","+",",","-",".","/",
      "0","1","2","3","4","5","6","7","8","9",":",";","<","=",">","?","@",
      "A","B","C","D","E","F","G","H","I","J","K","L","M",
      "N","O","P","Q","R","S","T","U","V","W","X","Y","Z","[","\\","]","^","_">>

\* the printable ASCII characters of codes 97 to 126
AsciiFrom97 ==
    <<"a","b","c","d","e","f","g","h","i","j","k","l","m",
      "n","o","p","q","r","s","t","u","v","w","x","y","z","{","|","}","~">>

\* charCodeAt: the code of a character of the alphabet (the control characters 9 to 13,
\* the printable ASCII characters but the grave accent, the characters 160 to 255, and
\* the four further characters the primitives above name)
CharCode(c) ==
    IF IndexOf(AsciiFrom32, c) > 0 THEN 31 + IndexOf(AsciiFrom32, c)
    ELSE IF IndexOf(AsciiFrom97, c) > 0 THEN 96 + IndexOf(AsciiFrom97, c)
    ELSE IF IndexOf(ControlChars, c) > 0 THEN 8 + IndexOf(ControlChars, c)
    ELSE IF IndexOf(Latin1From160, c) > 0 THEN 159 + IndexOf(Latin1From160, c)
    ELSE IF c = "Μ" THEN 924
    ELSE IF c = "μ" THEN 956
    ELSE IF c = " " THEN 5760
    ELSE IF c = "﻿" THEN 65279
    ELSE NotInAlphabet(c)

\* the UTF-8 bytes of a character code below 65536
Utf8Bytes(code) ==
    IF code < 128 THEN <<code>>
    ELSE IF code < 2048 THEN <<192 + (code \div 64), 128 + (code % 64)>>
    ELSE <<224 + (code \div 4096), 128 + ((code \div 64) % 64), 128 + (code % 64)>>

\* %XX of one byte, in upper-case hexadecimal
PercentByte(b) == <<"%", UpperChar(HexChars[(b \div 16) + 1]), UpperChar(HexChars[(b % 16) + 1])>>

\* the UTF-8 bytes of a character, each as %XX
PercentEncoded(c) ==
    LET bytes == Utf8Bytes(CharCode(c))
    IN  IF Len(bytes) = 1 THEN PercentByte(bytes[1])
        ELSE IF Len(bytes) = 2 THEN PercentByte(bytes[1]) \o PercentByte(bytes[2])
        ELSE PercentByte(bytes[1]) \o PercentByte(bytes[2]) \o PercentByte(bytes[3])

\* the characters neither encodeURI nor querystring.escape encode, letters and digits aside
UnreservedMarks == {"-", "_", ".", "!", "~", "*", "'", "(", ")"}

\* the further characters encodeURI keeps
ReservedChars == {";", ",", "/", "?", ":", "@", "&", "=", "+", "$", "#"}

IsAlphaNumeric(c) ==
    IndexOf(UpperChars, c) > 0 \/ IndexOf(LowerChars, c) > 0 \/ IndexOf(DigitChars, c) > 0

RECURSIVE EncodeChars(_, _)
EncodeChars(s, keep) ==
    IF Len(s) = 0 THEN <<>>
    ELSE (IF IsAlphaNumeric(s[1]) \/ s[1] \in keep THEN <<s[1]>> ELSE PercentEncoded(s[1]))
         \o EncodeChars(Tail(s), keep)

\* encodeURI
encodeURI(s) == EncodeChars(s, UnreservedMarks \cup ReservedChars)

\* querystring.escape; undefined is written as the empty string
escape(v) == IF v = Undefined THEN <<>> ELSE EncodeChars(v, UnreservedMarks)

\* querystring.stringify of an object given by its entries in insertion order
stringify(options) ==
    join([i \in DOMAIN options |-> escape(options[i].key) \o <<"=">> \o escape(options[i].value)],
         <<"&">>)

\* Location of the redirect after the original was uploaded unchanged
LocationOriginal(originFilePath) == <<"/">> \o encodeURI(originFilePath)

\* Location of the redirect after the transformed file was uploaded
LocationTransformed(originFilePath, options) ==
    <<"/">> \o encodeURI(originFilePath) \o <<"?">> \o stringify(options)

\* the path of a URL: up to the first "?"
UrlPath(url) == split(url, "?")[1]

\* the query of a URL: from the first "?" on, empty when there is none
UrlQuery(url) == SubSeq(url, Len(UrlPath(url)) + 2, Len(url))

\* one name=value field of a query as a query parameter, split at its first "="
FieldParam(field) ==
    Param(split(field, "=")[1], SubSeq(field, Len(split(field, "=")[1]) + 2, Len(field)))

\* the querystring object of a viewer request: one entry per non-empty field of the query,
\* holding the first of the values given under equal names
RECURSIVE QueryObject(_, _, _)
QueryObject(fields, i, obj) ==
    IF i > Len(fields) THEN obj
    ELSE IF fields[i] = <<>> THEN QueryObject(fields, i + 1, obj)
    ELSE IF \E j \in DOMAIN obj : obj[j].key = FieldParam(fields[i]).key
    THEN QueryObject(fields, i + 1, obj)
    ELSE QueryObject(fields, i + 1,
                     ObjectSet(obj, FieldParam(fields[i]).key, FieldParam(fields[i]).value))

\* the viewer request a client sends for a URL, with its method and Accept header
RequestFor(url, method, accept) ==
    [method |-> method, uri |-> UrlPath(url), hasQuery |-> TRUE,
     querystring |-> QueryObject(split(UrlQuery(url), "&"), 1, <<>>), accept |-> accept]

-----------------------------------------------------------------------------
(* The deployment: the origin bucket, the cache bucket, the origin group *)

\* the secret the stack hands to the engine and to the fallback origin's custom header
SECRET_KEY == <<"s","3","c","r","3","t">>

\* cacheTTL, the Cache-Control of cached objects
TRANSFORMED_FILE_CACHE_TTL == <<"m","a","x","-","a","g","e","=","3","1","6","2","2","4","0","0">>

\* an origin group failing over on a hit as well
fallbackStatusCodesWide == {200, 403}

\* the status codes of the primary origin on which the origin group fails over
fallbackStatusCodes == {403}

\* the objects of the origin bucket
OriginBucket ==
    { [Key |-> <<"a",".","j","p","g">>, Body |-> "a.jpg", ContentType |-> <<"i","m","a","g","e","/","j","p","e","g">>,
       Metadata |-> {<<"owner", "a">>}, Decodable |-> TRUE, Orientation |-> TRUE],
      [Key |-> <<"d","o","c",".","t","x","t">>, Body |-> "doc.txt", ContentType |-> <<"t","e","x","t","/","p","l","a","i","n">>,
       Metadata |-> {<<"owner", "doc">>}, Decodable |-> FALSE, Orientation |-> FALSE],
      [Key |-> <<"s",".","m","p","3">>, Body |-> "s.mp3", ContentType |-> <<"a","u","d","i","o","/","m","p","e","g">>,
       Metadata |-> {<<"owner", "s">>}, Decodable |-> TRUE, Orientation |-> FALSE],
      [Key |-> <<"b","a","d",".","j","p","g">>, Body |-> "bad.jpg", ContentType |-> <<"I","m","a","g","e","/","J","P","E","G">>,
       Metadata |-> {<<"owner", "bad">>}, Decodable |-> FALSE, Orientation |-> FALSE],
      [Key |-> <<"s","o","n","g",".","f","l","a","c">>, Body |-> "song.flac", ContentType |-> <<"a","u","d","i","o","/","f","l","a","c">>,
       Metadata |-> {}, Decodable |-> TRUE, Orientation |-> FALSE],
      [Key |-> <<"v",".","o","g","g">>, Body |-> "v.ogg", ContentType |-> <<"a","u","d","i","o","/","o","g","g">>,
       Metadata |-> {<<"owner", "v">>}, Decodable |-> TRUE, Orientation |-> FALSE],
      [Key |-> <<"t","r","a","c","k">>, Body |-> "track", ContentType |-> <<"A","u","d","i","o","/","M","P","E","G">>,
       Metadata |-> {}, Decodable |-> TRUE, Orientation |-> FALSE],
      [Key |-> <<"r","a","w",".","b","i","n">>, Body |-> "raw.bin", ContentType |-> Undefined,
       Metadata |-> {}, Decodable |-> FALSE, Orientation |-> FALSE],
      [Key |-> <<"i","m","g","/","r","i","o","/","1",".","p","n","g">>, Body |-> "img/rio/1.png", ContentType |-> <<"i","m","a","g","e","/","p","n","g">>,
       Metadata |-> {<<"owner", "rio">>}, Decodable |-> TRUE, Orientation |-> FALSE] }

\* whether a bucket holds an object at key, and that object
HasKey(bucket, key) == \E o \in bucket : o.Key = key

ObjectAt(bucket, key) == CHOOSE o \in bucket : o.Key = key

\* PutObject: the object at key is created or replaced
PutObject(bucket, key, body, contentType, cacheControl, metadata) ==
    {o \in bucket : o.Key # key}
    \cup {[Key |-> key, Body |-> body, ContentType |-> contentType,
           CacheControl |-> cacheControl, Metadata |-> metadata]}

\* the key the primary origin looks up for a request path: the path without its leading "/"
S3Key(path) == Tail(path)

\* the status of the primary origin: it answers 403 for a key it does not hold
PrimaryStatus(bucket, path) == IF HasKey(bucket, S3Key(path)) THEN 200 ELSE 403

-----------------------------------------------------------------------------
(* Transform Engine: what the deployed handler does *)

\* getFormat of the image-only engine: the registry entry named format, JPEG when none is
getFormat(format) ==
    IF resolveImageFormat(format) # NoFormat THEN resolveImageFormat(format) ELSE ImageFormat[2]

\* transImage of the image-only engine: the source format only when no format is asked
transImage_imageOnly(imageFile, operations) ==
    transImageTo(imageFile,
                 IntOption(ObjectGet(operations, OptionKey_WIDTH)),
                 IntOption(ObjectGet(operations, OptionKey_HEIGHT)),
                 IF Truthy(ObjectGet(operations, OptionKey_FORMAT))
                 THEN getFormat(ObjectGet(operations, OptionKey_FORMAT))
                 ELSE NoFormat,
                 ObjectGet(operations, OptionKey_QUALITY))

\* isImage of the image-only engine: by the content type alone
isImage_imageOnly(contentType) ==
    Truthy(contentType) /\ startsWith(toLowerCase(contentType), MediaType_IMAGE)

\* the switch over the format name in transImage of the older image-only engine: the
\* content type of the six names it lists, image/jpeg for every other name; Format is
\* that content type as the argument of toFormat
older_targetFormat(preferFormat) ==
    IF preferFormat = <<"j","p","e","g">> THEN [ContentType |-> ImageFormat[2].ContentType, Format |-> "image/jpeg", isLossy |-> TRUE]
    ELSE IF preferFormat = <<"s","v","g">> THEN [ContentType |-> ImageFormat[9].ContentType, Format |-> "image/svg+xml", isLossy |-> FALSE]
    ELSE IF preferFormat = <<"g","i","f">> THEN [ContentType |-> ImageFormat[5].ContentType, Format |-> "image/gif", isLossy |-> FALSE]
    ELSE IF preferFormat = <<"w","e","b","p">> THEN [ContentType |-> ImageFormat[4].ContentType, Format |-> "image/webp", isLossy |-> TRUE]
    ELSE IF preferFormat = <<"p","n","g">> THEN [ContentType |-> ImageFormat[3].ContentType, Format |-> "image/png", isLossy |-> FALSE]
    ELSE IF preferFormat = <<"a","v","i","f">> THEN [ContentType |-> ImageFormat[8].ContentType, Format |-> "image/avif", isLossy |-> TRUE]
    ELSE [ContentType |-> ImageFormat[2].ContentType, Format |-> "image/jpeg", isLossy |-> TRUE]

\* transImage of the older image-only engine: toFormat is handed the content type, not
\* the format name, which sharp rejects; the quality only for a lossy target
transImage_older(imageFile, operations) ==
    LET width == IntOption(ObjectGet(operations, OptionKey_WIDTH))
        height == IntOption(ObjectGet(operations, OptionKey_HEIGHT))
        preferFormat == ObjectGet(operations, OptionKey_FORMAT)
        quality == ObjectGet(operations, OptionKey_QUALITY)
        target == older_targetFormat(preferFormat)
        Encoded(format, q) ==
            [of |-> imageFile.Body, by |-> "sharp", width |-> width, height |-> height,
             rotate |-> imageFile.Orientation, format |-> format, quality |-> q,
             bitrate |-> Undefined]
    IN  IF ~imageFile.Decodable \/ BadDimension(width) \/ BadDimension(height)
        THEN [ok |-> FALSE]
        ELSE IF ~Truthy(preferFormat)
        THEN [ok |-> TRUE, ContentType |-> imageFile.ContentType, Buff |-> Encoded("input", None)]
        ELSE IF target.Format \notin SharpFormats
        THEN [ok |-> FALSE]
        ELSE IF target.isLossy /\ Truthy(quality)
        THEN IF BadQuality(parseInt(quality)) THEN [ok |-> FALSE]
             ELSE [ok |-> TRUE, ContentType |-> target.ContentType,
                   Buff |-> Encoded(target.Format, parseInt(quality))]
        ELSE [ok |-> TRUE, ContentType |-> target.ContentType,
              Buff |-> Encoded(target.Format, None)]

\* the handlers that serve images only: the newer and the older one
ImageOnlyKinds == {"imageOnly", "older"}

\* whether the deployed handler uploads the original unchanged
keepsOriginal(kind, optionString, contentType) ==
    IF kind = "legacy"
    THEN optionString = STR_original \/ ~legacy_isSupported(contentType)
    ELSE IF kind \in ImageOnlyKinds
    THEN optionString = STR_original \/ ~isImage_imageOnly(contentType)
    ELSE noTransform(optionString, contentType, engine_resolveOptions(optionString))

\* whether the deployed handler, when it transforms, calls transImage
toImage(kind, optionString, contentType) ==
    IF kind = "legacy"
    THEN legacy_toImage(legacy_resolveFormat(engine_resolveOptionsLoop(split(optionString, ","), 1, <<>>)))
    ELSE IF kind \in ImageOnlyKinds THEN TRUE
    ELSE isImage(contentType, engine_resolveOptions(optionString))

\* the deployed handler between download and upload
engineTransformed(kind, originFileObj, originFilePath, optionString) ==
    IF kind = "legacy"
    THEN legacy_transformed(originFileObj, optionString,
                            engine_resolveOptionsLoop(split(optionString, ","), 1, <<>>),
                            legacy_resolveFormat(engine_resolveOptionsLoop(split(optionString, ","), 1, <<>>)))
    ELSE IF kind \in ImageOnlyKinds
    THEN IF keepsOriginal(kind, optionString, originFileObj.ContentType)
         THEN Unchanged(originFileObj)
         ELSE IF kind = "older"
         THEN transImage_older(originFileObj,
                               engine_resolveOptionsLoop(split(optionString, ","), 1, <<>>))
         ELSE transImage_imageOnly(originFileObj,
                                   engine_resolveOptionsLoop(split(optionString, ","), 1, <<>>))
    ELSE transformed(kind, originFileObj, originFilePath, optionString,
                     engine_resolveOptions(optionString))

\* mergeObjects on objects given as sets of <<key, value>> pairs: a later object wins
mergeObjects(a, b) == {x \in a : \A y \in b : y[1] # x[1]} \cup b

\* the CacheControl argument of putObject, undefined when uploadFile passes none
uploadCacheControl(kind) == IF kind \in {"legacy"} \cup ImageOnlyKinds THEN Undefined ELSE TRANSFORMED_FILE_CACHE_TTL

\* the metadata argument the handler passes to uploadFile
uploadMetadata(kind, original, metadata) ==
    IF kind \in {"legacy"} \cup ImageOnlyKinds /\ ~original
    THEN mergeObjects(metadata, {<<"Cache-Control", TRANSFORMED_FILE_CACHE_TTL>>})
    ELSE metadata

\* the Cache-Control header of the inline success answer
answerCacheControl(kind, original) ==
    IF kind \in {"legacy"} \cup ImageOnlyKinds /\ original THEN Undefined ELSE TRANSFORMED_FILE_CACHE_TTL

\* the message of the handler's answer when the upload fails
uploadErrorMessage(kind, original) ==
    IF original THEN "Could not upload origin file to S3"
    ELSE IF kind \in ImageOnlyKinds THEN "Could not upload transformed image to S3"
    ELSE "Could not upload transformed file to S3"

-----------------------------------------------------------------------------
(* The viewer requests of the system *)

SysRequest(method, uri, q, a) ==
    [method |-> method, uri |-> uri, hasQuery |-> TRUE, querystring |-> q, accept |-> a]

\* a transformable image in two spellings of one transform, the bare original, an image
\* with an audio-only directive, a file that is no media, an audio file, a missing
\* original, an undecodable image, a HEAD request
SysRequests ==
    { SysRequest("GET", <<"/","a",".","j","p","g">>, <<Param(<<"w","i","d","t","h">>, <<"1","0","0">>), Param(<<"f","o","r","m","a","t">>, <<"w","e","b","p">>)>>, NoHeader),
      SysRequest("GET", <<"/","a",".","j","p","g">>, <<Param(<<"F","O","R","M","A","T">>, <<"W","e","b","P">>), Param(<<"W","i","d","t","h">>, <<"1","0","0">>)>>, NoHeader),
      [method |-> "GET", uri |-> <<"/","a",".","j","p","g">>, hasQuery |-> FALSE, querystring |-> <<>>, accept |-> NoHeader],
      SysRequest("GET", <<"/","a",".","j","p","g">>, <<Param(<<"b","i","t","r","a","t","e">>, <<"6","4","k">>)>>, NoHeader),
      SysRequest("GET", <<"/","d","o","c",".","t","x","t">>, <<Param(<<"w","i","d","t","h">>, <<"1","0","0">>)>>, NoHeader),
      SysRequest("GET", <<"/","s",".","m","p","3">>, <<Param(<<"f","o","r","m","a","t">>, <<"a","a","c">>)>>, NoHeader),
      SysRequest("GET", <<"/","n","o","n","e",".","j","p","g">>, <<Param(<<"w","i","d","t","h">>, <<"1","0","0">>)>>, NoHeader),
      SysRequest("GET", <<"/","b","a","d",".","j","p","g">>, <<Param(<<"q","u","a","l","i","t","y">>, <<"8","0">>)>>, NoHeader),
      SysRequest("HEAD", <<"/","a",".","j","p","g">>, <<Param(<<"h","e","i","g","h","t">>, <<"5","0">>)>>, NoHeader) }

-----------------------------------------------------------------------------
(* Spec: clients, the normalizer, the origin group, the engine and the cache bucket *)

Clients == 1..NumClients

NoResult == [ok |-> FALSE]

NoResponse == [statusCode |-> 0, from |-> "none", body |-> "", Location |-> <<>>,
               ContentType |-> <<>>, CacheControl |-> <<>>, Metadata |-> {}]

NoObject == [Key |-> <<>>]

NoRequest == [method |-> "GET", uri |-> <<>>, hasQuery |-> FALSE, querystring |-> <<>>,
              accept |-> NoHeader]

IdleClient ==
    [pc |-> "idle", request |-> NoRequest, path |-> <<>>, hops |-> 0, calls |-> 0,
     secret |-> Undefined, log |-> <<>>, put |-> Undefined, origin |-> NoObject, result |-> NoResult,
     ffmpeg |-> 0, response |-> NoResponse]

\* newError: the uniform error answer
newError(message) ==
    [statusCode |-> 500, from |-> "FALLBACK", body |-> message, Location |-> <<>>,
     ContentType |-> <<>>, CacheControl |-> <<>>, Metadata |-> {}]

\* the answer of the function URL when the handler's promise rejects
UnhandledError ==
    [statusCode |-> 502, from |-> "FALLBACK", body |-> "Internal Server Error", Location |-> <<>>,
     ContentType |-> <<>>, CacheControl |-> <<>>, Metadata |-> {}]

\* the answer of the primary origin when the bucket is unavailable
PrimaryUnavailableResponse ==
    [statusCode |-> 503, from |-> "PRIMARY", body |-> "Service Unavailable", Location |-> <<>>,
     ContentType |-> <<>>, CacheControl |-> <<>>, Metadata |-> {}]

\* the answer of the primary origin: the stored object
PrimaryResponse(o) ==
    [statusCode |-> 200, from |-> "PRIMARY", body |-> o.Body, Location |-> <<>>,
     ContentType |-> o.ContentType, CacheControl |-> o.CacheControl, Metadata |-> o.Metadata]

\* the inline success answer: the bytes, the content type, the cache TTL, the metadata
InlineResponse(result, metadata) ==
    [statusCode |-> 200, from |-> "FALLBACK", body |-> result.Buff, Location |-> <<>>,
     ContentType |-> result.ContentType, CacheControl |-> TRANSFORMED_FILE_CACHE_TTL,
     Metadata |-> metadata]

\* the redirect success answer
RedirectResponse(location) ==
    [statusCode |-> 302, from |-> "FALLBACK", body |-> "", Location |-> location,
     ContentType |-> <<>>, CacheControl |-> <<"n","o","-","c","a","c","h","e">>, Metadata |-> {}]

\* the Location the redirecting handler answers with
LocationOf(originFilePath, optionString, contentType, options) ==
    IF noTransform(optionString, contentType, options)
    THEN LocationOriginal(originFilePath)
    ELSE LocationTransformed(originFilePath, options)

\* the success answer of the deployed handler
SuccessResponse(kind, p, originFilePath, optionString) ==
    IF kind = "redirect"
    THEN RedirectResponse(LocationOf(originFilePath, optionString, p.origin.ContentType,
                                     engine_resolveOptions(optionString)))
    ELSE [InlineResponse(p.result, p.origin.Metadata) EXCEPT
              !.CacheControl = answerCacheControl(kind, keepsOriginal(kind, optionString,
                                                                      p.origin.ContentType))]

\* the event the engine is invoked with: the x-origin-secret-header, the method, the path
OriginEvent(p) == [secret |-> p.secret, method |-> p.request.method, path |-> p.path]

\* the handler up to the download of the original, with the method tested before the secret
AfterDownloadMethodFirst(p, event, originFilePath) ==
    IF event.method # "GET"
    THEN [p EXCEPT !.pc = "done", !.calls = @ + 1,
                   !.response = newError("Only GET method is supported")]
    ELSE IF ~Truthy(event.secret) \/ event.secret # secretKey
    THEN [p EXCEPT !.pc = "done", !.calls = @ + 1, !.response = newError("Request unauthorized")]
    ELSE IF ~HasKey(OriginBucket, originFilePath)
    THEN [p EXCEPT !.pc = "done", !.calls = @ + 1, !.log = Append(@, "download"),
                   !.response = newError("Could not download origin file from S3")]
    ELSE [p EXCEPT !.pc = "downloaded", !.calls = @ + 1, !.log = Append(@, "download"),
                   !.origin = ObjectAt(OriginBucket, originFilePath)]

\* the handler serving a request from the object another invocation has stored meanwhile
AfterDownloadCoalesced(p, event, originFilePath) ==
    IF HasKey(cache, Tail(p.path))
    THEN [p EXCEPT !.pc = "done", !.calls = @ + 1,
                   !.response = [PrimaryResponse(ObjectAt(cache, Tail(p.path)))
                                    EXCEPT !.from = "FALLBACK"]]
    ELSE AfterDownloadMethodFirst(p, event, originFilePath)


\* the handler up to the download of the original: the client after it
AfterDownload(p, event, originFilePath) ==
    IF ~Truthy(event.secret) \/ event.secret # secretKey
    THEN [p EXCEPT !.pc = "done", !.calls = @ + 1, !.response = newError("Request unauthorized")]
    ELSE IF event.method # "GET"
    THEN [p EXCEPT !.pc = "done", !.calls = @ + 1,
                   !.response = newError("Only GET method is supported")]
    ELSE IF ~HasKey(OriginBucket, originFilePath)
    THEN [p EXCEPT !.pc = "done", !.calls = @ + 1, !.log = Append(@, "download"),
                   !.response = newError("Could not download origin file from S3")]
    ELSE [p EXCEPT !.pc = "downloaded", !.calls = @ + 1, !.log = Append(@, "download"),
                   !.origin = ObjectAt(OriginBucket, originFilePath)]

\* the ffmpeg processes of the request still running when transAudio settles: save() starts
\* the command and run() starts it again, and the first 'end' or 'error' of the two settles
\* the promise; none for an image and for an original kept
FfmpegStarted(isImg, original) == IF isImg \/ original THEN 0 ELSE 1

\* the handler after the transformation stage (skipped when the original is kept): the
\* client after it
AfterTransform(p, result, isImg, original) ==
    IF result.ok
    THEN [p EXCEPT !.pc = "transformed", !.result = result,
                   !.ffmpeg = FfmpegStarted(isImg, original),
                   !.log = IF original THEN @ ELSE Append(@, "transform")]
    ELSE [p EXCEPT !.pc = "done", !.log = Append(@, "transform"),
                   !.ffmpeg = FfmpegStarted(isImg, original),
                   !.response = newError(IF isImg THEN "Transforming image failed"
                                         ELSE "Transforming audio failed")]

\* the client after the handler's success answer
AfterUpload(p, key, response, stored) ==
    [p EXCEPT !.pc = IF response.statusCode = 302 THEN "redirect" ELSE "done",
              !.log = Append(@, "upload"),
              !.put = IF stored THEN key ELSE @,
              !.response = response]

Init ==
    /\ engineKind \in {"inline", "redirect", "legacy"}
    /\ secretKey = SECRET_KEY
    /\ cacheBucket \in BOOLEAN
    /\ cache = {}
    /\ expired = {}
    /\ cl = [c \in Clients |-> IdleClient]
    /\ req = NoRequest
    /\ resA = <<>>
    /\ resI = <<>>
    /\ qsA = <<>>
    /\ done = {}
    /\ retA = NoRequest
    /\ retI = NoRequest
    /\ stack = NoStack

\* a client sends a viewer request; the viewer-request function rewrites its uri
ViewerRequest(c, r) ==
    /\ cl[c].pc = "idle"
    /\ cl' = [cl EXCEPT ![c] = [IdleClient EXCEPT !.pc = "origin", !.request = r,
                                                  !.path = handler(r)]]
    /\ UNCHANGED <<engineKind, secretKey, cacheBucket, cache, expired, normVars, stack>>

\* the origin group: the primary origin holds the key and answers
PrimaryHit(c) ==
    /\ cl[c].pc = "origin"
    /\ cacheBucket
    /\ PrimaryStatus(cache, cl[c].path) \notin fallbackStatusCodes
    /\ cl' = [cl EXCEPT ![c].pc = "done",
                        ![c].response = PrimaryResponse(ObjectAt(cache, S3Key(cl[c].path)))]
    /\ UNCHANGED <<engineKind, secretKey, cacheBucket, cache, expired, normVars, stack>>

\* the origin group: the primary origin answers 403 and the request fails over
PrimaryMiss(c) ==
    /\ cl[c].pc = "origin"
    /\ cacheBucket
    /\ PrimaryStatus(cache, cl[c].path) \in fallbackStatusCodes
    /\ cl' = [cl EXCEPT ![c].pc = "fallback", ![c].secret = SECRET_KEY]
    /\ UNCHANGED <<engineKind, secretKey, cacheBucket, cache, expired, normVars, stack>>

\* the origin group: the cache bucket is unavailable and the primary origin answers with
\* a status that is no fail-over status; the answer goes to the client
PrimaryUnavailable(c) ==
    /\ cl[c].pc = "origin"
    /\ cacheBucket
    /\ PrimaryUnavailableResponse.statusCode \notin fallbackStatusCodes
    /\ cl' = [cl EXCEPT ![c].pc = "done", ![c].response = PrimaryUnavailableResponse]
    /\ UNCHANGED <<engineKind, secretKey, cacheBucket, cache, expired, normVars, stack>>

\* a deployment without cache bucket has no origin group: the engine is the only origin
DirectOrigin(c) ==
    /\ cl[c].pc = "origin"
    /\ ~cacheBucket
    /\ cl' = [cl EXCEPT ![c].pc = "fallback", ![c].secret = SECRET_KEY]
    /\ UNCHANGED <<engineKind, secretKey, cacheBucket, cache, expired, normVars, stack>>

\* the engine handler is invoked: secret, method, path split, download of the original
EngineDownload(c) ==
    /\ cl[c].pc = "fallback"
    /\ cl' = [cl EXCEPT ![c] = AfterDownload(cl[c], OriginEvent(cl[c]),
                                             originFilePathOf(cl[c].path))]
    /\ UNCHANGED <<engineKind, secretKey, cacheBucket, cache, expired, normVars, stack>>

\* the redirecting handler reads the body stream of the downloaded object outside any
\* try block: the stream fails and the handler's promise rejects
EngineReadFail(c) ==
    /\ cl[c].pc = "downloaded"
    /\ engineKind = "redirect"
    /\ cl' = [cl EXCEPT ![c].pc = "done", ![c].response = UnhandledError]
    /\ UNCHANGED <<engineKind, secretKey, cacheBucket, cache, expired, normVars, stack>>

\* the engine handler decides whether to transform and runs the transformation
EngineTransform(c) ==
    /\ cl[c].pc = "downloaded"
    /\ cl' = [cl EXCEPT ![c] =
                 AfterTransform(cl[c],
                                engineTransformed(engineKind, cl[c].origin,
                                                  originFilePathOf(cl[c].path),
                                                  optionStringOf(cl[c].path)),
                                toImage(engineKind, optionStringOf(cl[c].path),
                                        cl[c].origin.ContentType),
                                keepsOriginal(engineKind, optionStringOf(cl[c].path),
                                              cl[c].origin.ContentType))]
    /\ UNCHANGED <<engineKind, secretKey, cacheBucket, cache, expired, normVars, stack>>

\* the second ffmpeg process of the request ends while the handler is still running: at any
\* moment between the settling of transAudio and the handler's answer, after which the
\* execution environment is frozen (the record of the next request starts without it)
FfmpegExit(c) ==
    /\ cl[c].pc = "transformed"
    /\ cl[c].ffmpeg > 0
    /\ cl' = [cl EXCEPT ![c].ffmpeg = 0]
    /\ UNCHANGED <<engineKind, secretKey, cacheBucket, cache, expired, normVars, stack>>

\* the engine handler uploads the result under the cache key (when a cache bucket is
\* configured) and answers with success
EngineUpload(c) ==
    /\ cl[c].pc = "transformed"
    /\ cache' = IF cacheBucket
                THEN PutObject(cache, cacheKey(cl[c].path), cl[c].result.Buff,
                               cl[c].result.ContentType, uploadCacheControl(engineKind),
                               uploadMetadata(engineKind,
                                              keepsOriginal(engineKind, optionStringOf(cl[c].path),
                                                            cl[c].origin.ContentType),
                                              cl[c].origin.Metadata))
                ELSE cache
    /\ expired' = IF cacheBucket THEN expired \ {cacheKey(cl[c].path)} ELSE expired
    /\ cl' = [cl EXCEPT ![c] =
                 AfterUpload(cl[c], cacheKey(cl[c].path),
                             SuccessResponse(engineKind, cl[c], originFilePathOf(cl[c].path),
                                             optionStringOf(cl[c].path)),
                             cacheBucket)]
    /\ UNCHANGED <<engineKind, secretKey, cacheBucket, normVars, stack>>

\* the upload to the cache bucket fails and the handler answers with an error
EngineUploadFail(c) ==
    /\ cl[c].pc = "transformed"
    /\ cacheBucket
    /\ cl' = [cl EXCEPT ![c].pc = "done",
                        ![c].log = Append(@, "upload"),
                        ![c].response =
                            newError(uploadErrorMessage(engineKind,
                                         keepsOriginal(engineKind, optionStringOf(cl[c].path),
                                                       cl[c].origin.ContentType)))]
    /\ UNCHANGED <<engineKind, secretKey, cacheBucket, cache, expired, normVars, stack>>

\* the client follows the redirect: it requests the Location, which the viewer-request
\* function rewrites
FollowRedirect(c) ==
    /\ cl[c].pc = "redirect"
    /\ cl[c].hops < MaxHops
    /\ cl' = [cl EXCEPT ![c].pc = "origin",
                        ![c].hops = @ + 1,
                        ![c].path = handler(RequestFor(cl[c].response.Location,
                                                       cl[c].request.method,
                                                       cl[c].request.accept)),
                        ![c].secret = Undefined,
                        ![c].log = <<>>,
                        ![c].origin = NoObject,
                        ![c].result = NoResult,
                        ![c].ffmpeg = 0,
                        ![c].response = NoResponse]
    /\ UNCHANGED <<engineKind, secretKey, cacheBucket, cache, expired, normVars, stack>>

\* the lifecycle rule of the cache bucket expires an object
Expire(k) ==
    /\ HasKey(cache, k)
    /\ cache' = {o \in cache : o.Key # k}
    /\ expired' = expired \cup {k}
    /\ UNCHANGED <<engineKind, secretKey, cacheBucket, cl, normVars, stack>>

Next ==
    \/ \E c \in Clients, r \in SysRequests : ViewerRequest(c, r)
    \/ \E c \in Clients : PrimaryHit(c)
    \/ \E c \in Clients : PrimaryMiss(c)
    \/ \E c \in Clients : PrimaryUnavailable(c)
    \/ \E c \in Clients : DirectOrigin(c)
    \/ \E c \in Clients : EngineDownload(c)
    \/ \E c \in Clients : EngineReadFail(c)
    \/ \E c \in Clients : EngineTransform(c)
    \/ \E c \in Clients : FfmpegExit(c)
    \/ \E c \in Clients : EngineUpload(c)
    \/ \E c \in Clients : EngineUploadFail(c)
    \/ \E c \in Clients : FollowRedirect(c)
    \/ \E k \in {o.Key : o \in cache} : Expire(k)

Spec == Init /\ [][Next]_vars

-----------------------------------------------------------------------------
(* Properties of the redirect loop and of cache population *)

\* C4 (as claimed): with a cache bucket and the redirecting engine, the client's re-fetch
\* of the Location of a 302, once rewritten by the normalizer, addresses at the primary
\* origin the very cache key the engine uploaded to before it answered.
CexC4_RedirectClosesLoop ==
    \A c \in Clients :
        (cacheBucket /\ engineKind = "redirect" /\ cl[c].hops >= 1 /\ cl[c].pc = "origin")
            => S3Key(cl[c].path) = cl[c].put

\* the handler of client c answers with success in this step
EngineSucceeds(c) ==
    /\ cl[c].pc = "transformed"
    /\ cl'[c].pc \in {"done", "redirect"}
    /\ cl'[c].response.statusCode \in {200, 302}

\* the origin group settles the request of client c in this step
Resolves(c) == cl[c].pc = "origin" /\ cl'[c] # cl[c]

\* C5: with a cache bucket, when the handler answers with success for request path P the
\* cache bucket holds an object at P without its leading "/"; an object leaves the cache
\* bucket only by expiring; and a request whose path the cache bucket holds is answered
\* by the primary origin (with that object, unless the bucket is unavailable) with no
\* invocation of the engine.
ThmC5_CachePopulation ==
    [][cacheBucket =>
          /\ \A c \in Clients : EngineSucceeds(c) => HasKey(cache', S3Key(cl[c].path))
          /\ \A o \in cache : HasKey(cache', o.Key) \/ o.Key \in expired'
          /\ \A c \in Clients :
                 (Resolves(c) /\ HasKey(cache, S3Key(cl[c].path)))
                     => /\ cl'[c].pc = "done"
                        /\ cl'[c].response \in
                               {PrimaryResponse(ObjectAt(cache, S3Key(cl[c].path))),
                                PrimaryUnavailableResponse}
                        /\ cl'[c].calls = cl[c].calls]_vars

\* C5 witness: the inline engine answered one client and stored the result; another
\* client, asking for the same transform with its parameters in another order and case,
\* was answered by the primary origin with those bytes and without any engine invocation.
WitC5_CachePopulation ==
    \E c1, c2 \in Clients :
        /\ cacheBucket /\ engineKind = "inline"
        /\ cl[c1].pc = "done" /\ cl[c1].response.from = "FALLBACK"
        /\ cl[c1].response.statusCode = 200
        /\ cl[c1].put = S3Key(cl[c1].path)
        /\ cl[c1].path = <<"/","a",".","j","p","g","/","f","o","r","m","a","t","=","w","e","b","p",",","w","i","d","t","h","=","1","0","0">>
        /\ cl[c2].pc = "done" /\ cl[c2].response.from = "PRIMARY"
        /\ cl[c2].response.statusCode = 200
        /\ cl[c2].calls = 0
        /\ cl[c2].path = cl[c1].path
        /\ cl[c2].request.querystring # cl[c1].request.querystring
        /\ cl[c2].response.body = cl[c1].response.body
        /\ cl[c2].response.ContentType = <<"i","m","a","g","e","/","w","e","b","p">>

-----------------------------------------------------------------------------
(* Properties of the Request Normalizer: the format directive *)

\* the value of the format pair the normalizer serialized first, undefined when the
\* directive string does not start with one
PathFormat(r, uri) ==
    IF startsWith(split(DirectiveOf(r, uri), ",")[1], OptionKey_FORMAT \o <<"=">>)
    THEN SubSeq(split(DirectiveOf(r, uri), ",")[1], Len(OptionKey_FORMAT) + 2,
                Len(split(DirectiveOf(r, uri), ",")[1]))
    ELSE Undefined

\* parameter i of r is an explicit format: a format key, a non-empty value other than auto
ExplicitFormat(r, i) ==
    /\ toLowerCase(r.querystring[i].key) = OptionKey_FORMAT
    /\ r.querystring[i].value # <<>>
    /\ toLowerCase(r.querystring[i].value) # STR_auto

\* C11 (as claimed): every explicit format=<name> parameter is emitted as the format
\* directive iff <name> lower-cased is in the supported-format set.
CexC11_FormatValid ==
    "audio" \in done =>
        \A i \in DOMAIN req.querystring :
            ExplicitFormat(req, i)
                => (PathFormat(req, resA) = toLowerCase(req.querystring[i].value)
                        <=> ArrayIncludes(SUPPORTED_FORMATS, toLowerCase(req.querystring[i].value)))

-----------------------------------------------------------------------------
(* Properties of the Request Normalizer: the frame *)

\* the returned request ret of the viewer request r: an empty querystring, the original
\* path followed by "/" at the start of the uri, method and headers as received
Framed(r, ret) ==
    /\ ret.querystring = <<>>
    /\ startsWith(ret.uri, r.uri \o <<"/">>)
    /\ ret.method = r.method
    /\ ret.accept = r.accept

\* C12: either normalizer returns a request whose querystring is empty and whose uri
\* starts with the original path followed by "/"; method and headers are as received.
ThmC12_NormalizerFrame ==
    /\ "audio" \in done => Framed(req, retA) /\ retA.uri = resA /\ qsA = <<>>
    /\ "image" \in done => Framed(req, retI) /\ retI.uri = resI

\* C12 witness: a HEAD request with a recognized and an unrecognized parameter and an
\* Accept header came back from both normalizers with only its uri and querystring changed.
WitC12_NormalizerFrame ==
    /\ done = {"audio", "image"}
    /\ req.method = "HEAD"
    /\ req.querystring = <<Param(OptionKey_WIDTH, <<"1","0","0">>), Param(<<"f","o","o">>, <<"b","a","r">>)>>
    /\ retA = [req EXCEPT !.uri = URI_image \o <<"/","w","i","d","t","h","=","1","0","0">>, !.querystring = <<>>]
    /\ retI = retA

-----------------------------------------------------------------------------
(* The engine handler invoked once, directly through its function URL *)

\* the x-origin-secret-header values of an invocation: absent, empty, wrong, the deployed key
EventSecrets == {Undefined, <<>>, <<"g","u","e","s","s">>, SECRET_KEY}

\* the methods of an invocation; "" stands for an event without requestContext.http
EventMethods == {"GET", "HEAD", "POST", ""}

\* directive strings, those the normalizer emits and others
EngineDirectives ==
    { <<"o","r","i","g","i","n","a","l">>, <<>>, <<"w","i","d","t","h","=","1","0","0">>, <<"h","e","i","g","h","t","=","5","0">>, <<"q","u","a","l","i","t","y","=","8","0">>, <<"f","o","r","m","a","t","=","w","e","b","p",",","q","u","a","l","i","t","y","=","8","0">>,
      <<"f","o","r","m","a","t","=","p","n","g",",","q","u","a","l","i","t","y","=","8","0">>, <<"f","o","r","m","a","t","=","w","e","b","p">>, <<"w","i","d","t","h","=","1","0","0",",","1","=","2">>,
      <<"f","o","r","m","a","t","=","s","v","g">>, <<"w","i","d","t","h","=","a","b","c">>, <<"w","i","d","t","h","=">>, <<"f","o","o","=","b","a","r">>, <<"b","i","t","r","a","t","e","=","1","2","8","k">>,
      <<"f","o","r","m","a","t","=","m","p","3">>, <<"f","o","r","m","a","t","=","m","p","3",",","b","i","t","r","a","t","e","=","1","2","8","k">>, <<"f","o","r","m","a","t","=","f","l","a","c">>, <<"f","o","r","m","a","t","=","f","l","a","c",",","b","i","t","r","a","t","e","=","1","2","8","k">>,
      <<"f","o","r","m","a","t","=","a","a","c">>, <<"f","o","r","m","a","t","=","a","a","c",",","b","i","t","r","a","t","e","=","1","2","8","k">> }

\* request paths: the key of an object of the origin bucket, or of none, and a directive string
EnginePaths ==
    { <<"/">> \o k \o <<"/">> \o d : k \in {o.Key : o \in OriginBucket} \cup {<<"n","o","n","e",".","j","p","g">>},
                                   d \in EngineDirectives }

\* the events: every secret and method on two paths, every path with the deployed key and GET
EngineEvents ==
    [secret : EventSecrets, method : EventMethods, path : {<<"/","a",".","j","p","g","/","w","i","d","t","h","=","1","0","0">>, <<"/","s",".","m","p","3","/","o","r","i","g","i","n","a","l">>}]
    \cup [secret : {SECRET_KEY}, method : {"GET"}, path : EnginePaths]

\* the client whose request is the invocation with event
Invoked(event) ==
    [IdleClient EXCEPT !.pc = "fallback", !.request = [NoRequest EXCEPT !.method = event.method],
                       !.secret = event.secret, !.path = event.path]

InitEngine ==
    /\ engineKind \in {"inline", "redirect", "legacy"}
    /\ secretKey \in {SECRET_KEY, Undefined}
    /\ cacheBucket \in BOOLEAN
    /\ cache = {}
    /\ expired = {}
    /\ \E event \in EngineEvents :
          cl = [c \in Clients |-> IF c = 1 THEN Invoked(event) ELSE IdleClient]
    /\ req = NoRequest
    /\ resA = <<>>
    /\ resI = <<>>
    /\ qsA = <<>>
    /\ done = {}
    /\ retA = NoRequest
    /\ retI = NoRequest
    /\ stack = NoStack

NextEngine ==
    \/ EngineDownload(1)
    \/ EngineReadFail(1)
    \/ EngineTransform(1)
    \/ FfmpegExit(1)
    \/ EngineUpload(1)
    \/ EngineUploadFail(1)

SpecEngine == InitEngine /\ [][NextEngine]_vars

-----------------------------------------------------------------------------
(* Properties of the Transform Engine: rejected invocations *)

\* the invocation of client p is unauthorized: no header value, an empty one, or one that
\* differs from the configured key (which includes that no key is configured)
Unauthorized(p) == p.secret = Undefined \/ p.secret = <<>> \/ p.secret # secretKey

\* nothing was downloaded or uploaded for client p
NoStageRan(p) == p.log = <<>> /\ p.origin = NoObject /\ p.put = Undefined /\ cache = {}

\* C13: an invocation whose x-origin-secret-header is missing, empty or different from the
\* configured secret is answered 500 'Request unauthorized'; one with the right secret and
\* a method other than GET is answered 500 'Only GET method is supported'; in both cases
\* nothing is downloaded and nothing is put, and the secret is tested before the method.
ThmC13_Rejections ==
    cl[1].pc # "fallback" =>
        /\ Unauthorized(cl[1]) =>
              /\ cl[1].response.statusCode = 500
              /\ cl[1].response.body = "Request unauthorized"
              /\ NoStageRan(cl[1])
        /\ ~Unauthorized(cl[1]) /\ cl[1].request.method # "GET" =>
              /\ cl[1].response.statusCode = 500
              /\ cl[1].response.body = "Only GET method is supported"
              /\ NoStageRan(cl[1])
        /\ ~Unauthorized(cl[1]) /\ cl[1].request.method = "GET" =>
              (cl[1].response.statusCode = 500 =>
                  cl[1].response.body \notin {"Request unauthorized",
                                              "Only GET method is supported"})

\* C13 witness: a HEAD invocation with a wrong secret was answered 'Request unauthorized'.
WitC13_Rejections ==
    /\ cl[1].pc = "done"
    /\ secretKey = SECRET_KEY
    /\ cl[1].secret = <<"g","u","e","s","s">>
    /\ cl[1].request.method = "HEAD"
    /\ cl[1].response = newError("Request unauthorized")
    /\ cl[1].calls = 1

-----------------------------------------------------------------------------
(* Properties of the Transform Engine: the no-transform decision *)

\* the elements of a sequence
Range(seq) == {seq[i] : i \in DOMAIN seq}

\* the directive string holds key with a non-empty value
Present(optionString, key) == Truthy(ObjectGet(engine_resolveOptions(optionString), key))

\* the stated condition for no transform, on a directive string and an origin content type
StatedNoTransform(optionString, contentType) ==
    \/ optionString = STR_original
    \/ ~Truthy(contentType)
    \/ /\ ~startsWith(toLowerCase(contentType), MediaType_IMAGE)
       /\ ~startsWith(toLowerCase(contentType), MediaType_AUDIO)
    \/ /\ startsWith(toLowerCase(contentType), MediaType_IMAGE)
       /\ \A k \in {OptionKey_FORMAT, OptionKey_QUALITY, OptionKey_WIDTH, OptionKey_HEIGHT} :
             ~Present(optionString, k)
    \/ /\ startsWith(toLowerCase(contentType), MediaType_AUDIO)
       /\ \A k \in {OptionKey_FORMAT, OptionKey_BITRATE} : ~Present(optionString, k)

\* the handler serving client p is past its decision: no transform routine ran exactly
\* under the stated condition, and then the origin bytes and content type are what is
\* put under the cache key and what a 200 answer carries
NoTransformExact(p) ==
    p.pc \in {"transformed", "done", "redirect"} /\ p.origin # NoObject =>
        /\ StatedNoTransform(optionStringOf(p.path), p.origin.ContentType)
              <=> "transform" \notin Range(p.log)
        /\ "transform" \notin Range(p.log) =>
              /\ p.result = Unchanged(p.origin)
              /\ p.put # Undefined /\ HasKey(cache, p.put) =>
                    /\ p.put = cacheKey(p.path)
                    /\ ObjectAt(cache, p.put).Body = p.result.Buff
                    /\ ObjectAt(cache, p.put).Body.of = p.origin.Body
                    /\ ObjectAt(cache, p.put).ContentType = p.origin.ContentType
              /\ p.response.statusCode = 200 =>
                    /\ p.response.body = p.result.Buff
                    /\ p.response.ContentType = p.origin.ContentType

\* C14: the engine performs no transform exactly when the directive string is `original`,
\* the origin content type is absent or neither image nor audio, or no directive key of
\* the media type is present; it then stores and returns the origin bytes with the origin
\* content type. Violated by the handler with the MediaFormat registry.
CexC14_NoTransformExact == NoTransformExact(cl[1])

-----------------------------------------------------------------------------
(* Properties of the Transform Engine: stage failures *)

\* client p's invocation passes the secret and method tests
Admitted(p) == ~Unauthorized(p) /\ p.request.method = "GET"

\* the download of client p's original fails: the origin bucket holds no such key
DownloadFails(p) == Admitted(p) /\ ~HasKey(OriginBucket, originFilePathOf(p.path))

\* the transformation of client p's downloaded original fails
TransformFails(p) ==
    /\ p.origin # NoObject
    /\ ~engineTransformed(engineKind, p.origin, originFilePathOf(p.path),
                          optionStringOf(p.path)).ok

\* the stages in the order the handler runs them
StageOrder == <<"download", "transform", "upload">>

\* log names stages in the handler's order, each at most once
InStageOrder(log) ==
    \A i, j \in DOMAIN log :
        i < j => \E a, b \in DOMAIN StageOrder : a < b /\ StageOrder[a] = log[i] /\ StageOrder[b] = log[j]

\* client p was answered the error message and nothing was put
FailedWith(p, messages) ==
    /\ p.pc = "done"
    /\ p.response.statusCode = 500
    /\ p.response.body \in messages
    /\ p.put = Undefined
    /\ cache = {}

\* the stated error messages
StageMessages ==
    {"Could not download origin file from S3", "Transforming image failed",
     "Transforming audio failed", "Could not upload origin file to S3",
     "Could not upload transformed file to S3"}

\* the failures the handler catches: each ends the request with its own 500 message, no
\* later stage runs, nothing is put, and each stage is attempted at most once
CaughtFailures ==
    /\ InStageOrder(cl[1].log)
    /\ cl[1].pc # "fallback" /\ DownloadFails(cl[1]) =>
          /\ FailedWith(cl[1], {"Could not download origin file from S3"})
          /\ cl[1].log = <<"download">>
    /\ cl[1].pc \notin {"fallback", "downloaded"} /\ TransformFails(cl[1])
          /\ cl[1].response # UnhandledError =>
          /\ FailedWith(cl[1], {"Transforming image failed", "Transforming audio failed"})
          /\ cl[1].log = <<"download", "transform">>
    /\ cl[1].response.statusCode = 500 /\ Len(cl[1].log) > 0
          /\ cl[1].log[Len(cl[1].log)] = "upload" =>
          /\ FailedWith(cl[1], {"Could not upload origin file to S3",
                                "Could not upload transformed file to S3"})
          /\ cl[1].response.body = "Could not upload transformed file to S3"
                <=> "transform" \in Range(cl[1].log)

\* C15: a failed download, transformation or upload ends the request with its own 500
\* message; no later stage runs (nothing is put after a failed download or transformation,
\* the cache bucket stays as it was) and each stage is attempted at most once. Violated by
\* the redirecting handler when the body stream of the downloaded object fails.
CexC15_StageFailures ==
    /\ CaughtFailures
    /\ cl[1].pc = "done" /\ Admitted(cl[1]) /\ cl[1].response.statusCode # 200 =>
          /\ cl[1].response.statusCode = 500
          /\ cl[1].response.body \in StageMessages

-----------------------------------------------------------------------------
(* Properties of the Transform Engine: the bitrate handed to the encoder *)

\* the audio registry with the capability flags that applies to the deployed handler
CapabilityRegistry == IF engineKind = "redirect" THEN "redirect" ELSE "inline"

\* the format in force for client p's request: the target format named by the directive
\* when it resolves, else the format the extension of the source key resolves to
FormatInForce(p) ==
    IF resolveAudioFormat(CapabilityRegistry,
                          ObjectGet(engine_resolveOptions(optionStringOf(p.path)),
                                    OptionKey_FORMAT)).Name # Undefined
    THEN resolveAudioFormat(CapabilityRegistry,
                            ObjectGet(engine_resolveOptions(optionStringOf(p.path)),
                                      OptionKey_FORMAT))
    ELSE resolveAudioFormat(CapabilityRegistry,
                            trimStart(extname(originFilePathOf(p.path)), <<".">>))

BitrateSupported(p) == FormatInForce(p).Name # Undefined /\ FormatInForce(p).SupportBitrate

\* the audio routine produced client p's result
AudioRan(p) == p.result.ok /\ p.result.Buff.by = "ffmpeg"

\* C16: the audio routine passes no bitrate to the encoder when the format in force (the
\* resolved target format, else the format of the source extension) does not support
\* bitrate or there is none, whatever the bitrate directive.
ThmC16_BitrateGating ==
    AudioRan(cl[1]) /\ ~BitrateSupported(cl[1]) => cl[1].result.Buff.bitrate = Undefined

\* C16 witness: format=flac,bitrate=128k on an mp3 was encoded to flac with no bitrate.
WitC16_BitrateGating ==
    /\ cl[1].path = <<"/","s",".","m","p","3","/","f","o","r","m","a","t","=","f","l","a","c",",","b","i","t","r","a","t","e","=","1","2","8","k">>
    /\ AudioRan(cl[1])
    /\ cl[1].result.Buff.format = "flac"
    /\ cl[1].result.Buff.bitrate = Undefined

\* C17: when the format in force supports bitrate, the audio routine passes the bitrate
\* directive if there is one and the handler's fixed default otherwise. Violated by the
\* handler with the MediaFormat registry, which passes its fixed bitrate always.
CexC17_EffectiveBitrate ==
    AudioRan(cl[1]) /\ BitrateSupported(cl[1]) =>
        cl[1].result.Buff.bitrate =
            IF Present(optionStringOf(cl[1].path), OptionKey_BITRATE)
            THEN ObjectGet(engine_resolveOptions(optionStringOf(cl[1].path)), OptionKey_BITRATE)
            ELSE defaultBitrate(engineKind)

-----------------------------------------------------------------------------
(* Properties of the Transform Engine: the attributes of a cache PUT *)

\* C18: the object the engine put for client 1 carries the content type of the result, the
\* configured TTL as CacheControl and the user metadata of the origin object, nothing
\* added, removed or changed. Violated by the handler with the MediaFormat registry.
CexC18_PutAttributes ==
    cl[1].put # Undefined /\ HasKey(cache, cl[1].put) =>
        /\ ObjectAt(cache, cl[1].put).ContentType = cl[1].result.ContentType
        /\ cl[1].response.statusCode = 200 =>
              ObjectAt(cache, cl[1].put).ContentType = cl[1].response.ContentType
        /\ ObjectAt(cache, cl[1].put).CacheControl = TRANSFORMED_FILE_CACHE_TTL
        /\ ObjectAt(cache, cl[1].put).Metadata = cl[1].origin.Metadata

-----------------------------------------------------------------------------
(* The system serving the requests of one client *)

NextOne ==
    \/ \E r \in SysRequests : ViewerRequest(1, r)
    \/ PrimaryHit(1)
    \/ PrimaryMiss(1)
    \/ PrimaryUnavailable(1)
    \/ DirectOrigin(1)
    \/ EngineDownload(1)
    \/ EngineReadFail(1)
    \/ EngineTransform(1)
    \/ FfmpegExit(1)
    \/ EngineUpload(1)
    \/ EngineUploadFail(1)
    \/ FollowRedirect(1)
    \/ \E k \in {o.Key : o \in cache} : Expire(k)

SpecOne == Init /\ [][NextOne]_vars

-----------------------------------------------------------------------------
(* Properties of the Tiered Origin Resolver *)

\* the engine is working on client p's request
AtFallback(p) == p.pc \in {"fallback", "downloaded", "transformed"}

\* one step of the origin group, seen from the request of client c
ResolverStep(c) ==
    /\ ~AtFallback(cl[c]) /\ AtFallback(cl'[c]) =>
          /\ cl[c].pc = "origin"
          /\ ~HasKey(cache, S3Key(cl[c].path))
          /\ PrimaryStatus(cache, cl[c].path) = 403
          /\ cl'[c].path = cl[c].path
          /\ cl'[c].request = cl[c].request
    /\ cl[c].pc = "origin" /\ PrimaryStatus(cache, cl[c].path) # 403 /\ cl'[c] # cl[c] =>
          /\ cl'[c].pc = "done"
          /\ cl'[c].response.from = "PRIMARY"
          /\ cl'[c].calls = cl[c].calls
    /\ cl[c].pc = "origin" /\ cl'[c].pc = "done" =>
          /\ cl'[c].response.from = "PRIMARY"
          /\ cl'[c].response.statusCode # 403
          /\ cl'[c].calls = cl[c].calls
    /\ cl'[c].calls <= cl'[c].hops + 1
    /\ AtFallback(cl[c]) => cl'[c].pc # "origin" /\ cl'[c].path = cl[c].path
    /\ AtFallback(cl[c]) /\ cl'[c].pc = "done" =>
          /\ cl'[c].response.from = "FALLBACK"
          /\ cl'[c].calls = cl[c].calls + (IF cl[c].pc = "fallback" THEN 1 ELSE 0)
    /\ cl[c].pc = "done" => cl'[c] = cl[c]

\* C19: where the origin group is deployed, a request reaches the engine only after the
\* cache bucket answered 403 for it, once per request and with the same path; every other
\* answer of the cache bucket goes to the client without the engine being called, the
\* request never returns to the cache bucket, and an answer of the engine, a failure
\* included, is final.
ThmC19_Failover == [][cacheBucket => \A c \in Clients : ResolverStep(c)]_vars

\* C19 witness: a request missed, failed over once and was answered with a redirect; the
\* re-fetch got the cache bucket's 503, which went to the client without an invocation.
WitC19_Failover ==
    /\ cacheBucket
    /\ cl[1].pc = "done"
    /\ cl[1].hops = 1
    /\ cl[1].calls = 1
    /\ cl[1].response = PrimaryUnavailableResponse

-----------------------------------------------------------------------------
(* Properties of concurrent misses *)

\* one step, seen from the invocation serving client c: it changes no other client's
\* request; it downloads the original itself, whatever the cache bucket holds by now; and
\* when it answers with success it has run its own stages, the object under the cache key
\* is the one it has just put, and an inline answer carries its own result
OwnWork(c) ==
    /\ AtFallback(cl[c]) /\ cl'[c] # cl[c] => \A d \in Clients \ {c} : cl'[d] = cl[d]
    /\ /\ cl[c].pc = "fallback" /\ cl'[c] # cl[c] /\ Admitted(cl[c])
       /\ HasKey(OriginBucket, originFilePathOf(cl[c].path))
       => /\ cl'[c].pc = "downloaded"
          /\ cl'[c].origin = ObjectAt(OriginBucket, originFilePathOf(cl[c].path))
          /\ cl'[c].log = <<"download">>
    /\ EngineSucceeds(c) =>
          /\ cl'[c].log \in {<<"download", "upload">>, <<"download", "transform", "upload">>}
          /\ cl[c].result = engineTransformed(engineKind, cl[c].origin,
                                              originFilePathOf(cl[c].path),
                                              optionStringOf(cl[c].path))
          /\ cacheBucket =>
                /\ cl'[c].put = cacheKey(cl[c].path)
                /\ ObjectAt(cache', cacheKey(cl[c].path)).Body = cl[c].result.Buff
                /\ ObjectAt(cache', cacheKey(cl[c].path)).ContentType = cl[c].result.ContentType
          /\ cl'[c].response.statusCode = 200 => cl'[c].response.body = cl[c].result.Buff
    /\ cl[c].pc = "origin" /\ AtFallback(cl'[c]) => cache' = cache

\* C20: requests that miss on the same key are served by independent invocations: each
\* downloads, transforms and puts for itself, no invocation changes another request, each
\* is answered with its own result, and after a PUT the key holds what that PUT wrote.
ThmC20_ConcurrentMisses == [][\A c \in Clients : OwnWork(c)]_vars

\* C20 witness: two requests missed on the same key; one invocation has put its result
\* and answered, the other has transformed for itself and is about to put under the key
\* that is already stored.
WitC20_ConcurrentMisses ==
    \E c, d \in Clients :
        /\ c # d /\ cacheBucket /\ engineKind = "inline"
        /\ cl[c].path = cl[d].path
        /\ cl[c].path = <<"/","a",".","j","p","g","/","f","o","r","m","a","t","=","w","e","b","p",",","w","i","d","t","h","=","1","0","0">>
        /\ cl[c].pc = "done" /\ cl[c].response.statusCode = 200
        /\ cl[c].response.from = "FALLBACK" /\ cl[c].put = cacheKey(cl[c].path)
        /\ cl[d].pc = "transformed" /\ cl[d].calls = 1
        /\ cl[d].log = <<"download", "transform">>
        /\ HasKey(cache, cacheKey(cl[d].path))
        /\ expired = {}

-----------------------------------------------------------------------------
(* Properties of the Transform Engine: path split and cache key *)

\* a request path /s1/.../sn/d with at least one segment before the directive string
HasOriginSegments(path) ==
    Len(path) > 0 /\ path[1] = "/" /\ LastIndexOf(path, "/") > 1

\* the final segment of a request path, and what stands between its first and last "/"
FinalSegment(path) == SubSeq(path, LastIndexOf(path, "/") + 1, Len(path))

LeadingSegments(path) == SubSeq(path, 2, LastIndexOf(path, "/") - 1)

\* C21: for a request path /s1/.../sn/d the handler takes d as directive string, downloads
\* the origin object at key s1/.../sn and puts under the request path without its leading
\* "/", also when d is `original`.
ThmC21_PathSplit ==
    HasOriginSegments(cl[1].path) /\ Admitted(cl[1]) /\ cl[1].pc # "fallback" =>
        /\ optionStringOf(cl[1].path) = FinalSegment(cl[1].path)
        /\ IF HasKey(OriginBucket, LeadingSegments(cl[1].path))
           THEN cl[1].origin = ObjectAt(OriginBucket, LeadingSegments(cl[1].path))
           ELSE cl[1].response = newError("Could not download origin file from S3")
        /\ cl[1].put # Undefined =>
              /\ cl[1].put = Tail(cl[1].path)
              /\ HasKey(cache, Tail(cl[1].path))
              /\ cl[1].put = LeadingSegments(cl[1].path) \o <<"/">> \o FinalSegment(cl[1].path)
        /\ cacheBucket /\ cl[1].response.statusCode \in {200, 302} => cl[1].put # Undefined

\* C21 witness: /img/rio/1.png/original was served from the object img/rio/1.png and
\* stored under img/rio/1.png/original.
WitC21_PathSplit ==
    /\ cl[1].path = <<"/","i","m","g","/","r","i","o","/","1",".","p","n","g","/","o","r","i","g","i","n","a","l">>
    /\ cl[1].origin.Key = <<"i","m","g","/","r","i","o","/","1",".","p","n","g">>
    /\ cl[1].put = <<"i","m","g","/","r","i","o","/","1",".","p","n","g","/","o","r","i","g","i","n","a","l">>
    /\ HasKey(cache, <<"i","m","g","/","r","i","o","/","1",".","p","n","g","/","o","r","i","g","i","n","a","l">>)

-----------------------------------------------------------------------------
(* Properties of the Transform Engine: dispatch to the transform routines *)

\* the transform routine that ran for client p: by its result, or by its error message
RoutineOf(p) ==
    IF p.result.ok THEN p.result.Buff.by
    ELSE IF p.response.body = "Transforming image failed" THEN "sharp"
    ELSE IF p.response.body = "Transforming audio failed" THEN "ffmpeg"
    ELSE "none"

\* a transform routine ran for client p and the handler is past it
Transformed(p) ==
    /\ p.pc \in {"transformed", "done", "redirect"}
    /\ Len(p.log) >= 2 /\ p.log[2] = "transform"
    /\ p.response # UnhandledError

\* C22: whenever a transform applies, an image/* original goes to the image routine and
\* an audio/* original to the audio routine, whatever registry the format name belongs
\* to; the image routine encodes only to formats of the image registry, the audio routine
\* only with codecs of the audio registry. Violated by the handler with the MediaFormat
\* registry, which dispatches by the type of the resolved format.
CexC22_DispatchByType ==
    Transformed(cl[1]) =>
        /\ startsWith(toLowerCase(cl[1].origin.ContentType), MediaType_IMAGE)
              => RoutineOf(cl[1]) = "sharp"
        /\ startsWith(toLowerCase(cl[1].origin.ContentType), MediaType_AUDIO)
              => RoutineOf(cl[1]) = "ffmpeg"
        /\ cl[1].result.ok /\ RoutineOf(cl[1]) = "sharp" =>
              cl[1].result.Buff.format \in {"input"} \cup {ImageFormat[i].Format : i \in DOMAIN ImageFormat}
        /\ cl[1].result.ok /\ RoutineOf(cl[1]) = "ffmpeg" =>
              cl[1].result.Buff.format \in
                  {"input"} \cup {AudioFormat(CapabilityRegistry)[i].Codec :
                                     i \in DOMAIN AudioFormat(CapabilityRegistry)}

-----------------------------------------------------------------------------
(* Properties of the Transform Engine: directive strings that are not well-formed *)

\* a string of one or more decimal digits
IsNumeral(v) == Len(v) > 0 /\ \A i \in DOMAIN v : v[i] \in Range(DigitChars)

\* a well-formed directive: a recognized key, "=", and a value the key admits
WellFormedDirective(kv) ==
    LET parts == split(kv, "=") IN
    /\ Len(parts) = 2
    /\ \/ parts[1] \in {OptionKey_WIDTH, OptionKey_HEIGHT}
          /\ IsNumeral(parts[2]) /\ parseInt(parts[2]).val > 0
       \/ parts[1] = OptionKey_QUALITY
          /\ IsNumeral(parts[2]) /\ parseInt(parts[2]).val \in 1..100
       \/ parts[1] = OptionKey_FORMAT
          /\ \/ resolveImageFormat(parts[2]) # NoFormat
             \/ resolveAudioFormat(CapabilityRegistry, parts[2]) # NoFormat
       \/ parts[1] = OptionKey_BITRATE /\ Len(parts[2]) > 0

\* a directive string that is neither `original` nor a comma-separated list of
\* well-formed directives
MalformedDirectives(optionString) ==
    /\ optionString # STR_original
    /\ \/ optionString = <<>>
       \/ \E kv \in Range(split(optionString, ",")) : ~WellFormedDirective(kv)

\* C23: for a directive string that is not well-formed (empty, an unknown key, a key
\* without a value, a width that is no number) the handler falls back to no transform:
\* it runs no transform routine and goes on with the origin bytes unchanged.
\* Violated: `width=abc` on an image reaches sharp and fails the request with 500.
CexC23_MalformedFallsBack ==
    /\ Admitted(cl[1]) /\ cl[1].origin # NoObject
    /\ cl[1].pc \in {"transformed", "done", "redirect"}
    /\ cl[1].response # UnhandledError
    /\ MalformedDirectives(optionStringOf(cl[1].path))
    => /\ cl[1].result = Unchanged(cl[1].origin)
       /\ "transform" \notin Range(cl[1].log)

-----------------------------------------------------------------------------
(* SpecImage: the handlers with an image routine side by side, on image originals *)

\* the engines whose image routine is compared
ImageKinds == {"inline", "imageOnly", "older"}

\* the originals with an image content type
ImageObjects == {o \in OriginBucket : isImage_imageOnly(o.ContentType)}

\* the handler invoked, with the deployed key, for an image original and every directive
\* string, with and without a cache bucket
InitImage ==
    /\ engineKind \in ImageKinds
    /\ secretKey = SECRET_KEY
    /\ cacheBucket \in BOOLEAN
    /\ cache = {}
    /\ expired = {}
    /\ \E o \in ImageObjects, d \in EngineDirectives :
          cl = [c \in Clients |->
                   IF c = 1
                   THEN Invoked([secret |-> SECRET_KEY, method |-> "GET",
                                 path |-> <<"/">> \o o.Key \o <<"/">> \o d])
                   ELSE IdleClient]
    /\ req = NoRequest
    /\ resA = <<>>
    /\ resI = <<>>
    /\ qsA = <<>>
    /\ done = {}
    /\ retA = NoRequest
    /\ retI = NoRequest
    /\ stack = NoStack

\* the handler of the kind, from the invocation to its answer
NextImage == EngineDownload(1) \/ EngineTransform(1) \/ EngineUpload(1) \/ EngineUploadFail(1)

SpecImage == InitImage /\ [][NextImage]_vars

\* the image routine ran and encoded a result
ImageRoutineRan(p) ==
    /\ Len(p.log) >= 2 /\ p.log[2] = "transform"
    /\ p.result.ok /\ p.result.Buff.by = "sharp"

\* C24: when the image routine runs and the format directive is absent or names no known
\* image format, the result is encoded in the source format with the source content type.
\* Violated by the image-only engine, whose getFormat answers JPEG for an unknown name.
CexC24_SourceFormatKept ==
    /\ ImageRoutineRan(cl[1])
    /\ resolveImageFormat(ObjectGet(engine_resolveOptions(optionStringOf(cl[1].path)),
                                    OptionKey_FORMAT)) = NoFormat
    => /\ cl[1].result.Buff.format = "input"
       /\ cl[1].result.ContentType = cl[1].origin.ContentType

-----------------------------------------------------------------------------
(* Properties of the image routine: quality *)

\* the image format the directive string of client p names
TargetImageFormat(p) ==
    resolveImageFormat(ObjectGet(engine_resolveOptions(optionStringOf(p.path)), OptionKey_FORMAT))

\* the image routine produced client p's result, and the handler is past the transform
ImageEncoded(p) ==
    /\ Len(p.log) >= 2 /\ p.log[2] = "transform"
    /\ p.result.ok /\ p.result.Buff.by = "sharp"

\* C25: when the image routine encodes to a resolved target format, the encoder is given a
\* quality exactly when the quality directive is present and the format's descriptor has
\* SupportQuality, and then the directive's value; the result is in the descriptor's
\* Format, with the descriptor's ContentType, in both cases.
ThmC25_QualityGating ==
    ImageEncoded(cl[1]) /\ TargetImageFormat(cl[1]) # NoFormat =>
        /\ (cl[1].result.Buff.quality # None)
              <=> /\ Present(optionStringOf(cl[1].path), OptionKey_QUALITY)
                  /\ TargetImageFormat(cl[1]).SupportQuality
        /\ cl[1].result.Buff.quality # None =>
              cl[1].result.Buff.quality =
                  parseInt(ObjectGet(engine_resolveOptions(optionStringOf(cl[1].path)),
                                     OptionKey_QUALITY))
        /\ cl[1].result.Buff.format = TargetImageFormat(cl[1]).Format
        /\ cl[1].result.ContentType = TargetImageFormat(cl[1]).ContentType

\* C25 witness: format=png,quality=80 on a JPEG original was encoded as PNG with no quality
WitC25_QualityGating ==
    /\ ImageEncoded(cl[1])
    /\ cl[1].origin.ContentType = <<"i","m","a","g","e","/","j","p","e","g">>
    /\ optionStringOf(cl[1].path) = <<"f","o","r","m","a","t","=","p","n","g",",","q","u","a","l","i","t","y","=","8","0">>
    /\ cl[1].result.Buff.format = "png"
    /\ cl[1].result.Buff.quality = None
    /\ cl[1].result.ContentType = <<"i","m","a","g","e","/","p","n","g">>
    /\ cl[1].response.statusCode \in {200, 302}

-----------------------------------------------------------------------------
(* Properties of the Transform Engine: the order of the stages of one invocation *)

\* the handler of client c is answered with success in this step
AnswersSuccess(c) ==
    /\ cl'[c].response # cl[c].response
    /\ cl'[c].response.statusCode \in {200, 302}

\* C26: within one invocation the download completes before the transform starts, the
\* transform completes before the PUT to the cache bucket, and the success answer is given
\* only together with the completed PUT, or with the PUT skipped when there is no cache
\* bucket. Violated by the audio routine: the PUT starts while the second ffmpeg process of
\* the request is still running.
CexC26_StagesInOrder ==
    [][ /\ cl'[1].origin # cl[1].origin =>
              cl[1].pc = "fallback" /\ cl[1].log = <<>> /\ cl[1].result = NoResult
        /\ cl'[1].result # cl[1].result =>
              /\ cl[1].pc = "downloaded" /\ cl[1].log = <<"download">>
              /\ cl[1].origin = ObjectAt(OriginBucket, originFilePathOf(cl[1].path))
              /\ cl[1].put = Undefined /\ cache = {}
        /\ cache' # cache \/ cl'[1].put # cl[1].put =>
              /\ cl[1].pc = "transformed" /\ cl[1].result.ok
              /\ cl[1].ffmpeg = 0
              /\ cl[1].log \in {<<"download">>, <<"download", "transform">>}
              /\ \E o \in cache' : o.Key = cacheKey(cl[1].path) /\ o.Body = cl[1].result.Buff
        /\ AnswersSuccess(1) =>
              /\ cl[1].pc = "transformed" /\ cl[1].result.ok
              /\ IF cacheBucket
                 THEN cl'[1].put = cacheKey(cl[1].path) /\ HasKey(cache', cacheKey(cl[1].path))
                 ELSE cl'[1].put = Undefined /\ cache' = cache
      ]_vars

-----------------------------------------------------------------------------
(* Properties across the tiers: the directive string written and read back *)

\* an object given by its entries, as its key -> value mapping
AsMapping(obj) == {<<obj[i].key, obj[i].value>> : i \in DOMAIN obj}

\* the validated options of the normalizer, as their key -> value mapping
OptionsMapping(options) == {<<k, options[k]>> : k \in DOMAIN options}

\* C27 (as claimed): for every viewer request whose validated options D are not empty,
\* the engine's resolveOptions on the directive string the normalizer serialized from D
\* returns D, the same keys with the same values; and for every request with no option
\* the directive string is `original`, on which the engine transforms nothing.
\* Violated by a bitrate value holding "," or "=", which is serialized verbatim.
CexC27_RoundTrip ==
    "audio" \in done =>
        IF isNotEmpty(resolveOptions(req))
        THEN AsMapping(engine_resolveOptions(DirectiveOf(req, resA)))
                 = OptionsMapping(resolveOptions(req))
        ELSE /\ DirectiveOf(req, resA) = STR_original
             /\ \A o \in OriginBucket :
                   noTransform(DirectiveOf(req, resA), o.ContentType,
                               engine_resolveOptions(DirectiveOf(req, resA)))

-----------------------------------------------------------------------------
(* Properties of the Request Normalizer: what the rewritten path depends on *)

\* the query parameters of r whose key, lower-cased, is one of keys, in their order
RecognizedParams(r, keys) ==
    SelectSeq(r.querystring, LAMBDA p : toLowerCase(p.key) \in keys)

\* r asks for format=auto
AsksAuto(r) ==
    \E i \in DOMAIN r.querystring :
        /\ toLowerCase(r.querystring[i].key) = OptionKey_FORMAT
        /\ toLowerCase(r.querystring[i].value) = STR_auto

\* the request made of what the rewritten path may depend on: the path of r, its
\* recognized parameters, and its Accept header when format=auto is asked
RelevantInput(r, keys) ==
    [method |-> "GET", uri |-> r.uri, hasQuery |-> TRUE,
     querystring |-> RecognizedParams(r, keys),
     accept |-> IF AsksAuto(r) THEN r.accept ELSE NoHeader]

AudioKeys == {OptionKey_FORMAT, OptionKey_QUALITY, OptionKey_WIDTH, OptionKey_HEIGHT, OptionKey_BITRATE}

ImageKeys == {OptionKey_FORMAT, OptionKey_QUALITY, OptionKey_WIDTH, OptionKey_HEIGHT}

\* C28: every viewer request is rewritten to a path (no error), and to the path of the
\* request that has only its path, its recognized query parameters and, when format=auto
\* is asked, its Accept header: unrecognized parameters, the method, and the Accept header
\* otherwise change nothing, so requests that agree on the former get the same path.
ThmC28_Noninterference ==
    /\ "audio" \in done =>
          /\ Len(resA) > Len(req.uri)
          /\ resA = handler(RelevantInput(req, AudioKeys))
    /\ "image" \in done =>
          /\ Len(resI) > Len(req.uri)
          /\ resI = handler_img(RelevantInput(req, ImageKeys))

\* C28 witness: a HEAD request with an unrecognized parameter and an Accept header, no
\* format asked, is rewritten as the GET request with its recognized parameter alone
WitC28_Noninterference ==
    /\ done = {"audio", "image"}
    /\ req.method = "HEAD"
    /\ \E i \in DOMAIN req.querystring : req.querystring[i].key = <<"f","o","o">>
    /\ req.accept.present
    /\ resA = <<"/","a",".","j","p","g","/","w","i","d","t","h","=","1","0","0">>
    /\ resI = resA
    /\ resA = handler(Request(URI_image, <<Param(OptionKey_WIDTH, <<"1","0","0">>)>>, NoHeader))

-----------------------------------------------------------------------------
(* Properties across the tiers: the format names of the normalizer in the engine *)

\* the descriptor the engine of the kind resolves a format name to: in its image registry,
\* else in its audio registry (the handler with one registry: in MediaFormat)
DescriptorOf(kind, name) ==
    IF kind = "legacy" THEN resolveFormatIn(MediaFormat, name)
    ELSE IF resolveImageFormat(name) # NoFormat THEN resolveImageFormat(name)
    ELSE resolveAudioFormat(kind, name)

\* C29: every format name the audio-capable normalizer accepts (SUPPORTED_FORMATS) resolves
\* to a descriptor in the deployed engine. Violated by the engine answering with redirects,
\* whose audio registry names ALAC `m4a` and has no MIDI entries, and by the handler with
\* the MediaFormat registry, which knows no audio format but aac.
CexC29_NamesResolve ==
    \A i \in DOMAIN SUPPORTED_FORMATS :
        DescriptorOf(engineKind, SUPPORTED_FORMATS[i]).Name = SUPPORTED_FORMATS[i]

-----------------------------------------------------------------------------
(* The deployment stacks: what the constructor creates from the context *)

\* this.node.tryGetContext(key) || deflt
ContextOr(context, key, deflt) == IF Truthy(context[key]) THEN context[key] ELSE deflt

STR_true == <<"t","r","u","e">>

\* the CloudFront behavior both constructors prepare, and the distribution they create
\* around it only inside `if (CLOUDFRONT_CORS_ENABLED === 'true')`
Distribution(corsEnabled, origin, urlRewrite) ==
    IF corsEnabled = STR_true
    THEN [created |-> TRUE, origin |-> origin, viewerRequest |-> urlRewrite,
          responseHeadersPolicy |-> TRUE]
    ELSE [created |-> FALSE]

\* the constructor of MediaxStack: the error thrown, or the resources created
MediaxStack(context) ==
    IF ~Truthy(context.S3_ORIGIN_BUCKET_NAME)
    THEN [pc |-> "failed", context |-> context, kind |-> "MediaxStack",
          error |-> "S3_ORIGIN_BUCKET_NAME can not be empty"]
    ELSE [pc |-> "created", context |-> context, kind |-> "MediaxStack",
          cacheBucket |-> TRUE,
          lambdaEnv |-> [originBucketName |-> context.S3_ORIGIN_BUCKET_NAME,
                         cacheBucketName |-> context.S3_ORIGIN_BUCKET_NAME \o <<".","t","h","u","m","b">>,
                         logTiming |-> ContextOr(context, "LOG_TIMING", STR_true)],
          deliveryOrigin |-> [primaryOrigin |-> "S3Origin", fallbackOrigin |-> "HttpOrigin",
                              fallbackStatusCodes |-> fallbackStatusCodes],
          distribution |->
              Distribution(ContextOr(context, "CLOUDFRONT_CORS_ENABLED", STR_true),
                           "OriginGroup", "mediaxUrlRewrite")]

\* the constructor of ImageOptimizationStack: the bucket name is read from the context
\* key S3_IMAGE_BUCKET_NAME; the cache bucket and the origin group only when
\* STORE_TRANSFORMED_IMAGES is 'true'
ImageOptimizationStack(context) ==
    IF ~Truthy(context.S3_IMAGE_BUCKET_NAME)
    THEN [pc |-> "failed", context |-> context, kind |-> "ImageOptimizationStack",
          error |-> "S3_IMAGE_BUCKET_NAME can not be empty"]
    ELSE LET store == ContextOr(context, "STORE_TRANSFORMED_IMAGES", STR_true) = STR_true
         IN  [pc |-> "created", context |-> context, kind |-> "ImageOptimizationStack",
              cacheBucket |-> store,
              lambdaEnv |-> [originBucketName |-> context.S3_IMAGE_BUCKET_NAME,
                             cacheBucketName |-> IF store
                                                 THEN context.S3_IMAGE_BUCKET_NAME \o <<".","t","h","u","m","b">>
                                                 ELSE Undefined,
                             logTiming |-> ContextOr(context, "LOG_TIMING", STR_true)],
              deliveryOrigin |-> IF store
                                 THEN [primaryOrigin |-> "S3Origin", fallbackOrigin |-> "HttpOrigin",
                                       fallbackStatusCodes |-> fallbackStatusCodes]
                                 ELSE [primaryOrigin |-> "HttpOrigin", fallbackOrigin |-> "none",
                                       fallbackStatusCodes |-> {}],
              distribution |->
                  Distribution(ContextOr(context, "CLOUDFRONT_CORS_ENABLED", STR_true),
                               IF store THEN "OriginGroup" ELSE "HttpOrigin",
                               "imageUrlRewriteFunction")]

\* the context values given on the command line: not given, empty, or a value
Contexts ==
    [S3_ORIGIN_BUCKET_NAME : {Undefined, <<>>, <<"m","e","d","i","a">>},
     S3_IMAGE_BUCKET_NAME : {Undefined, <<"m","e","d","i","a">>},
     CLOUDFRONT_CORS_ENABLED : {Undefined, STR_true, <<"f","a","l","s","e">>, <<"T","R","U","E">>},
     STORE_TRANSFORMED_IMAGES : {Undefined, STR_true, <<"f","a","l","s","e">>},
     LOG_TIMING : {Undefined, <<"f","a","l","s","e">>}]

InitStack ==
    /\ \E context \in Contexts, kind \in {"MediaxStack", "ImageOptimizationStack"} :
          stack = [pc |-> "new", context |-> context, kind |-> kind]
    /\ engineKind = "inline"
    /\ secretKey = SECRET_KEY
    /\ cacheBucket = FALSE
    /\ cache = {}
    /\ expired = {}
    /\ cl = [c \in Clients |-> IdleClient]
    /\ req = NoRequest
    /\ resA = <<>>
    /\ resI = <<>>
    /\ qsA = <<>>
    /\ done = {}
    /\ retA = NoRequest
    /\ retI = NoRequest

\* new MediaxStack(app, id)
NewMediaxStack ==
    /\ stack.pc = "new" /\ stack.kind = "MediaxStack"
    /\ stack' = MediaxStack(stack.context)
    /\ UNCHANGED <<normVars, sysVars>>

\* new ImageOptimizationStack(app, id)
NewImageOptimizationStack ==
    /\ stack.pc = "new" /\ stack.kind = "ImageOptimizationStack"
    /\ stack' = ImageOptimizationStack(stack.context)
    /\ UNCHANGED <<normVars, sysVars>>

NextStack == NewMediaxStack \/ NewImageOptimizationStack

SpecStack == InitStack /\ [][NextStack]_vars

\* the origin bucket name the stack is configured with, under the context key it reads
OriginBucketName(st) ==
    IF st.kind = "MediaxStack" THEN st.context.S3_ORIGIN_BUCKET_NAME
    ELSE st.context.S3_IMAGE_BUCKET_NAME

\* C30: for every valid configuration (an origin bucket name is given) the constructor
\* creates the distribution, with the url-rewrite function on viewer requests and the
\* delivery origin, and CLOUDFRONT_CORS_ENABLED decides only whether the response-headers
\* policy is attached. Violated: with the flag not 'true' no distribution is created.
CexC30_DistributionCreated ==
    stack.pc # "new" /\ Truthy(OriginBucketName(stack)) =>
        /\ stack.pc = "created"
        /\ stack.distribution.created
        /\ stack.distribution.viewerRequest \in {"mediaxUrlRewrite", "imageUrlRewriteFunction"}
        /\ stack.distribution.origin = IF stack.cacheBucket THEN "OriginGroup" ELSE "HttpOrigin"
        /\ stack.distribution.responseHeadersPolicy
              <=> (ContextOr(stack.context, "CLOUDFRONT_CORS_ENABLED", STR_true) = STR_true)

=============================================================================
